---- MODULE Spec2Model ----
(***************************************************************************)
(* A model of the CHAMP alignment engine (champ/fastqimagealigner.py) and  *)
(* of the image-by-image driver around it (champ/align.py).                *)
(*                                                                         *)
(* Conventions.                                                            *)
(*  - Indices are 1-based (Python's are 0-based); a hit is <<i, j>> with i *)
(*    an index into clusters.point_rcs and j an index into                 *)
(*    aligned_rcs_in_frame.                                                *)
(*  - A point is <<row, column>>.  Cluster centroids and in-frame read     *)
(*    coordinates are drawn from one image column, so every Euclidean      *)
(*    distance the engine takes is an integer and is computed exactly.     *)
(*  - A threshold is kept as twenty times its value (np.percentile at 95   *)
(*    and at 90 interpolates in twentieths), so comparisons are exact.     *)
(*  - A tile key 'lane1tileSNNN' is <<S, N>>: S is the character at index  *)
(*    9 (the chip side), N the rest of the tile number.                    *)
(*  - The tiles of an engine are kept by key: fastq_tiles[k] is the number *)
(*    of reads of tile k, aligned[k] its aligned_rcs, transform[k] the     *)
(*    scale, rotation and offset it holds, if any, snr[k] its correlation  *)
(*    and signal-to-noise ratio, if any.  mappings_runs counts the runs of *)
(*    set_fastq_tile_mappings on the engine.                               *)
(***************************************************************************)
EXTENDS Integers, Sequences, FiniteSets, TLC

VARIABLES
    fia,          \* the engine a call works on (a worker's local engine)
    pc,           \* where that engine's processing stands
    result,       \* the outcome of the last engine call
    frame,        \* the locals of a running precision_align_only
    params,       \* the parameters of the run (um_per_pixel, min_hits)
    cur,          \* the image a worker is processing, 0 if none
    images,       \* per image: the worker call's status and the phase reached
    stats_files,  \* the results directory: <<channel, image>> -> record
    rcs_files,    \* the results directory: <<channel, image>> -> written?
    run,          \* the driver's run: "running", "done" or "aborted"
    scan          \* check_column_for_alignment: the row loop

driver == <<params, cur, images, stats_files, rcs_files, run, scan>>
vars == <<fia, pc, result, frame, params, cur, images, stats_files, rcs_files,
          run, scan>>

(***************************************************************************)
(* Bounds of the model.                                                    *)
(***************************************************************************)
ImgH == 16
ImgW == 16
MaxClusters == 2
MaxReads == 2

RowVals == {0, 4, 12, ImgH}
ClusterPoints == RowVals \X {0}
ReadPoints == ClusterPoints \cup {<<0, ImgW>>}

\* um_per_pixel in thousandths of a micron
UmChoices == {266, 267}

AllKeys == {<<1, 1>>, <<1, 2>>, <<2, 1>>, <<2, 2>>}

\* tile_data of the alignment reads: tile key -> number of reads
EngineTileData == [k \in AllKeys |-> IF k[2] = 1 THEN MaxReads ELSE 1]

SeqsUpTo(S, n) == UNION {[1..m -> S] : m \in 0..n}

\* Coordinate lists are drawn in row-major order: the classification names
\* clusters and reads by their index and does not depend on their order.
RowMajor(s) ==
    \A i \in 1..(Len(s) - 1) :
        \/ s[i][1] < s[i + 1][1]
        \/ s[i][1] = s[i + 1][1] /\ s[i][2] <= s[i + 1][2]

\* the centroids of a cluster file are distinct
ClusterConfigs(n) ==
    {s \in SeqsUpTo(ClusterPoints, n) \ {<<>>} :
        RowMajor(s) /\ \A i, j \in 1..Len(s) : i # j => s[i] # s[j]}

\* self.fft = None
NoFft == <<0, 0>>
NoImage == [index |-> 0, shape |-> <<0, 0>>, um_per_pixel |-> 0, fft |-> NoFft]
NoRcs == <<>>
\* a tile that has no scale, rotation and offset of a solved transform
NoTransform == <<>>
\* a tile that has no correlation and signal-to-noise ratio of its own
NoSnr == <<>>
EmptyFn == [k \in {} |-> 0]
AllTiles == [all |-> TRUE, tile |-> <<0, 0>>]
OneTile(t) == [all |-> FALSE, tile |-> t]

(***************************************************************************)
(* FastqImageAligner.__init__ and load_reads                               *)
(***************************************************************************)
FastqImageAligner ==
    [ fastq_tiles          |-> EmptyFn,
      aligned              |-> EmptyFn,
      transform            |-> EmptyFn,
      snr                  |-> EmptyFn,
      mappings_runs        |-> 0,
      image_data           |-> NoImage,
      clusters             |-> <<>>,
      control_corr         |-> 0,
      non_mutual_hits      |-> {},
      mutual_hits          |-> {},
      bad_mutual_hits      |-> {},
      good_mutual_hits     |-> {},
      exclusive_hits       |-> {},
      hitting_tiles        |-> <<>>,
      aligned_rcs_in_frame |-> <<>> ]

load_reads(f, tile_data, valid_keys) ==
    LET new == {k \in DOMAIN tile_data : k \in valid_keys}
        keys == DOMAIN f.fastq_tiles \cup new
    IN [f EXCEPT !.fastq_tiles = [k \in keys |-> IF k \in new THEN tile_data[k]
                                                  ELSE f.fastq_tiles[k]],
                 !.aligned = [k \in keys |-> IF k \in new THEN NoRcs
                                             ELSE f.aligned[k]],
                 !.transform = [k \in keys |-> IF k \in new THEN NoTransform
                                               ELSE f.transform[k]],
                 !.snr = [k \in keys |-> IF k \in new THEN NoSnr
                                         ELSE f.snr[k]]]

set_image_data(f, image, um_per_pixel) ==
    [f EXCEPT !.image_data = [index |-> image, shape |-> <<ImgH, ImgW>>,
                              um_per_pixel |-> um_per_pixel, fft |-> NoFft]]

set_sexcat_from_file(f, point_rcs) == [f EXCEPT !.clusters = point_rcs]

(***************************************************************************)
(* find_points_in_frame                                                    *)
(***************************************************************************)
\* the row is not compared with the image height
InFrame_rows_unchecked(pt, im_shape) ==
    /\ 0 <= pt[1]
    /\ 0 <= pt[2] /\ pt[2] < im_shape[2]

InFrame(pt, im_shape) ==
    /\ 0 <= pt[1] /\ pt[1] < im_shape[1]
    /\ 0 <= pt[2] /\ pt[2] < im_shape[2]

RECURSIVE InFrameOfTile(_, _, _, _)
InFrameOfTile(key, rcs, im_shape, i) ==
    IF i > Len(rcs) THEN <<>>
    ELSE (IF InFrame(rcs[i], im_shape)
          THEN <<[pt |-> rcs[i], key |-> key, idx |-> i]>>
          ELSE <<>>) \o InFrameOfTile(key, rcs, im_shape, i + 1)

RECURSIVE InFrameOfTiles(_, _, _, _)
InFrameOfTiles(tiles, aligned, im_shape, k) ==
    IF k > Len(tiles) THEN <<>>
    ELSE InFrameOfTile(tiles[k], aligned[tiles[k]], im_shape, 1)
         \o InFrameOfTiles(tiles, aligned, im_shape, k + 1)

find_points_in_frame(f, consider_tiles) ==
    LET considered_tiles == IF consider_tiles.all THEN f.hitting_tiles
                            ELSE <<consider_tiles.tile>>
    IN InFrameOfTiles(considered_tiles, f.aligned, f.image_data.shape, 1)

(***************************************************************************)
(* hit_dists, single_hit_dist, np.percentile                               *)
(***************************************************************************)
D2(p, q) == (p[1] - q[1]) * (p[1] - q[1]) + (p[2] - q[2]) * (p[2] - q[2])

\* np.linalg.norm of the difference
Norm(p, q) == CHOOSE d \in 0..(ImgH + ImgW) : d * d = D2(p, q)

single_hit_dist(point_rcs, in_frame, hit) ==
    Norm(point_rcs[hit[1]], in_frame[hit[2]].pt)

\* the distances of a set of hits, in ascending order
RECURSIVE SortedDists(_, _, _)
SortedDists(point_rcs, in_frame, hits) ==
    IF hits = {} THEN <<>>
    ELSE LET h == CHOOSE h \in hits : \A g \in hits :
                    single_hit_dist(point_rcs, in_frame, h)
                       <= single_hit_dist(point_rcs, in_frame, g)
         IN <<single_hit_dist(point_rcs, in_frame, h)>>
            \o SortedDists(point_rcs, in_frame, hits \ {h})

\* 20 * np.percentile(dists, 5 * q20) of a non-empty ascending list
\* (linear interpolation between the two closest ranks)
Percentile20(sorted, q20) ==
    LET pos == q20 * (Len(sorted) - 1)
        k == pos \div 20
        r == pos % 20
    IN IF r = 0 THEN 20 * sorted[k + 1]
       ELSE (20 - r) * sorted[k + 1] + r * sorted[k + 2]

NanThresh == [nan |-> TRUE, v20 |-> 0]
Thresh(v20) == [nan |-> FALSE, v20 |-> v20]
\* line 259: second_neighbor_thresh = 2 * good_hit_threshold (a NaN stays one)
Twice(t) == [t EXCEPT !.v20 = 2 * @]

\* dist > thresh, where twice the threshold is meant
GtTwice_once(dist, t) == ~t.nan /\ 20 * dist > t.v20

\* dist < thresh
Leq_strict(dist, t) == ~t.nan /\ 20 * dist < t.v20

\* dist <= thresh, dist > thresh, dist > 2 * thresh (all false on a NaN)
Leq(dist, t) == ~t.nan /\ 20 * dist <= t.v20
Gt(dist, t) == ~t.nan /\ 20 * dist > t.v20
GtTwice(dist, t) == Gt(dist, Twice(t))

(***************************************************************************)
(* find_hits                                                               *)
(***************************************************************************)
\* np.percentile of an empty list: an IndexError or a NaN, by numpy version
EmptyPercentile == {"IndexError", "nan"}

GoodHitFixed == 5

Nearest(pt, pts) ==
    {j \in 1..Len(pts) : \A k \in 1..Len(pts) : D2(pt, pts[j]) <= D2(pt, pts[k])}

\* the answers the two KDTrees may give: every nearest neighbour, any tie
KDQueries(point_rcs, in_frame) ==
    LET rcs == [j \in 1..Len(in_frame) |-> in_frame[j].pt]
    IN { [c2a |-> c, a2c |-> a] :
           c \in {g \in [1..Len(point_rcs) -> 1..Len(rcs)] :
                    \A i \in 1..Len(point_rcs) : g[i] \in Nearest(point_rcs[i], rcs)},
           a \in {g \in [1..Len(rcs) -> 1..Len(point_rcs)] :
                    \A j \in 1..Len(rcs) : g[j] \in Nearest(rcs[j], point_rcs)} }

\* the locals of a find_hits call that its outcome is read against
NoRelations == [cluster_to_aligned |-> {}, aligned_to_cluster |-> {},
                good_hit_threshold |-> NanThresh,
                second_neighbor_thresh |-> NanThresh]

\* the exception class raised at each raise site
ExceptionKind(site) ==
    CASE site = "could_not_precision_align" -> "ValueError"     \* line 383
      [] site = "alignment_not_found"       -> "RuntimeError"   \* line 380
      [] site = "fft_padding"               -> "ValueError"     \* imagedata.py, line 31
      [] site = "partition"                 -> "AssertionError" \* line 276
      [] site = "mappings"                  -> "AssertionError" \* lines 112-113
      [] site = "KDTree"                    -> "ValueError"     \* lines 222-223, no point
      [] site = "min"                       -> "ValueError"     \* line 269, min([])
      [] site = "percentile"                -> "IndexError"     \* line 258
      [] site = "tile_key"                  -> "KeyError"       \* line 71

Raised(f, site) ==
    [fia |-> f, status |-> ExceptionKind(site), site |-> site, nn |-> NoRelations]
Returned(f, nn) == [fia |-> f, status |-> "ok", site |-> "return", nn |-> nn]

\* int(16.0 / um_per_pixel) == 60
FixedThreshold(f) == (16000 \div f.image_data.um_per_pixel) = 60

\* the percentile is taken whatever the pixel size
GoodHitThreshold_percentile_only(f, in_frame, exclusive_hits) ==
    IF exclusive_hits = {}
    THEN NanThresh
    ELSE Thresh(Percentile20(SortedDists(f.clusters, in_frame, exclusive_hits), 19))

GoodHitThreshold(f, in_frame, exclusive_hits) ==
    IF FixedThreshold(f)
    THEN Thresh(20 * GoodHitFixed)
    ELSE IF exclusive_hits = {}
         THEN NanThresh
         ELSE Thresh(Percentile20(SortedDists(f.clusters, in_frame, exclusive_hits), 19))

\* bad_mutual_hits is given all the mutual hits
FinalizeHits_mutual_as_bad(f, non_mutual_hits, mutual_hits, bad_mutual_hits, good_mutual_hits, exclusive_hits) ==
    [f EXCEPT !.non_mutual_hits = non_mutual_hits,
              !.mutual_hits = mutual_hits,
              !.bad_mutual_hits = mutual_hits,
              !.good_mutual_hits = good_mutual_hits,
              !.exclusive_hits = exclusive_hits]

\* mutual_hits is given the mutual hits that are not exclusive
FinalizeHits_mutual_less_exclusive(f, non_mutual_hits, mutual_hits, bad_mutual_hits, good_mutual_hits, exclusive_hits) ==
    [f EXCEPT !.non_mutual_hits = non_mutual_hits,
              !.mutual_hits = mutual_hits \ exclusive_hits,
              !.bad_mutual_hits = bad_mutual_hits,
              !.good_mutual_hits = good_mutual_hits,
              !.exclusive_hits = exclusive_hits]

\* lines 282-286: the classification becomes the engine's state
FinalizeHits(f, non_mutual_hits, mutual_hits, bad_mutual_hits, good_mutual_hits, exclusive_hits) ==
    [f EXCEPT !.non_mutual_hits = non_mutual_hits,
              !.mutual_hits = mutual_hits,
              !.bad_mutual_hits = bad_mutual_hits,
              !.good_mutual_hits = good_mutual_hits,
              !.exclusive_hits = exclusive_hits]

\* the projected point of the pair is not looked up among the non-mutual hits
Uncontested_cluster_only(mutual_hits, cluster_in_non_mutual, aligned_in_non_mutual) ==
    {h \in mutual_hits : h[1] \notin cluster_in_non_mutual}

\* lines 245-246: the mutual hits neither endpoint of which is in a
\* non-mutual hit
Uncontested(mutual_hits, cluster_in_non_mutual, aligned_in_non_mutual) ==
    {h \in mutual_hits : h[1] \notin cluster_in_non_mutual
                          /\ h[2] \notin aligned_in_non_mutual}

find_hits(f, consider_tiles, kd, empty_pct) ==
    LET in_frame == find_points_in_frame(f, consider_tiles)
        f1 == [f EXCEPT !.aligned_rcs_in_frame = in_frame]
    IN
    IF Len(f.clusters) = 0 \/ Len(in_frame) = 0
    THEN Raised(f1, "KDTree")
    ELSE
    LET dist(h) == single_hit_dist(f.clusters, in_frame, h)
        cluster_to_aligned_indexes == {<<i, kd.c2a[i]>> : i \in 1..Len(f.clusters)}
        aligned_to_cluster_indexs_rev == {<<kd.a2c[j], j>> : j \in 1..Len(in_frame)}
        mutual_hits == cluster_to_aligned_indexes \cap aligned_to_cluster_indexs_rev
        non_mutual_hits ==
            (cluster_to_aligned_indexes \ aligned_to_cluster_indexs_rev)
              \cup (aligned_to_cluster_indexs_rev \ cluster_to_aligned_indexes)
        cluster_in_non_mutual == {h[1] : h \in non_mutual_hits}
        aligned_in_non_mutual == {h[2] : h \in non_mutual_hits}
        exclusive0 == Uncontested(mutual_hits, cluster_in_non_mutual,
                                  aligned_in_non_mutual)
        good_hit_threshold == GoodHitThreshold(f, in_frame, exclusive0)
        exclusive_hits == {h \in exclusive0 : Leq(dist(h), good_hit_threshold)}
        third_wheels(h) == {t \in non_mutual_hits : h[1] = t[1] \/ h[2] = t[2]}
        candidates == {h \in mutual_hits \ exclusive_hits :
                          ~Gt(dist(h), good_hit_threshold)}
        MinDist(S) == CHOOSE d \in {dist(t) : t \in S} : \A t \in S : d <= dist(t)
        good_mutual_hits == {h \in candidates :
                                GtTwice(MinDist(third_wheels(h)), good_hit_threshold)}
        bad_mutual_hits == (mutual_hits \ exclusive_hits) \ good_mutual_hits
        partition ==
            /\ (non_mutual_hits \cup bad_mutual_hits \cup good_mutual_hits
                  \cup exclusive_hits)
               = (cluster_to_aligned_indexes \cup aligned_to_cluster_indexs_rev)
            /\ Cardinality(non_mutual_hits) + Cardinality(bad_mutual_hits)
                 + Cardinality(good_mutual_hits) + Cardinality(exclusive_hits)
               = Cardinality(cluster_to_aligned_indexes
                               \cup aligned_to_cluster_indexs_rev)
    IN
    IF ~FixedThreshold(f) /\ exclusive0 = {} /\ empty_pct = "IndexError"
    THEN Raised(f1, "percentile")
    ELSE IF \E h \in candidates : third_wheels(h) = {}
    THEN Raised(f1, "min")
    ELSE IF ~partition
    THEN Raised(f1, "partition")
    ELSE Returned(FinalizeHits(f1, non_mutual_hits, mutual_hits, bad_mutual_hits,
                               good_mutual_hits, exclusive_hits),
                  [cluster_to_aligned |-> cluster_to_aligned_indexes,
                   aligned_to_cluster |-> aligned_to_cluster_indexs_rev,
                   good_hit_threshold |-> good_hit_threshold,
                   second_neighbor_thresh |-> Twice(good_hit_threshold)])

\* the inputs of one find_hits call that the engine state does not fix
FindHitsInputs(f, consider_tiles) ==
    LET in_frame == find_points_in_frame(f, consider_tiles)
    IN IF Len(f.clusters) = 0 \/ Len(in_frame) = 0
       THEN {[kd |-> [c2a |-> <<>>, a2c |-> <<>>], empty_pct |-> "nan"]}
       ELSE {[kd |-> k, empty_pct |-> e] :
                k \in KDQueries(f.clusters, in_frame),
                e \in IF FixedThreshold(f) THEN {"nan"} ELSE EmptyPercentile}

(***************************************************************************)
(* ImageData.set_fft                                                       *)
(***************************************************************************)
RECURSIVE PowerOf2AtLeast(_, _)
PowerOf2AtLeast(x, p) == IF p >= x THEN p ELSE PowerOf2AtLeast(x, 2 * p)
next_power_of_2(x) == PowerOf2AtLeast(x, 1)

\* the lesser of the two powers of two is taken
Dimension_min(image_data, padding) ==
    LET totalx == padding[1] + image_data.shape[1]
        totaly == padding[2] + image_data.shape[2]
    IN IF next_power_of_2(totalx) <= next_power_of_2(totaly)
       THEN next_power_of_2(totalx) ELSE next_power_of_2(totaly)

\* lines 24-26: int(max(next_power_of_2(totalx), next_power_of_2(totaly)))
Dimension(image_data, padding) ==
    LET totalx == padding[1] + image_data.shape[1]
        totaly == padding[2] + image_data.shape[2]
    IN IF next_power_of_2(totalx) >= next_power_of_2(totaly)
       THEN next_power_of_2(totalx) ELSE next_power_of_2(totaly)

\* lines 27-29: the shape np.pad gives padded_im
PaddedIm(image_data, padding) ==
    LET totalx == padding[1] + image_data.shape[1]
        totaly == padding[2] + image_data.shape[2]
        dimension == Dimension(image_data, padding)
    IN <<padding[1] + image_data.shape[1] + (dimension - totalx),
         padding[2] + image_data.shape[2] + (dimension - totaly)>>

\* lines 30-32: the guard, then the transform of padded_im is stored (a
\* transform has the shape of the array it is taken of)
set_fft_of(image_data, padding, padded_im) ==
    LET dimension == Dimension(image_data, padding)
        raises == padded_im # <<dimension, dimension>>
    IN [raises |-> raises, dimension |-> dimension,
        fft |-> IF raises THEN image_data.fft ELSE padded_im]

set_fft(image_data, padding) ==
    set_fft_of(image_data, padding, PaddedIm(image_data, padding))

\* fq_im_scaled_dims, the canvas the tiles are rastered on
FqImScaledDims == <<ImgH \div 2, ImgW \div 4>>

(***************************************************************************)
(* set_fastq_tile_mappings, find_hitting_tiles, rough_align                *)
(***************************************************************************)
SnrThresh10 == 12

\* The correlation and the signal-to-noise ratio a tile holds are kept as the
\* name of the step that measured them: the rough alignment of the tile
\* (line 176), or its least-squares step (lines 363-365).
RoughSnr(k) == <<"rough", k>>
SolvedSnr(k) == <<"lsq", k>>

\* lines 115-125 are run once more (the mapping itself is not modelled, its
\* canvas is FqImScaledDims)
set_fastq_tile_mappings(f) == [f EXCEPT !.mappings_runs = @ + 1]

InCatalog(f, keys) == SelectSeq(keys, LAMBDA k : k \in DOMAIN f.fastq_tiles)

\* possible_tiles[:9] + "1" + possible_tiles[10:]
Side1Key(key) == <<1, key[2]>>

\* impossible_tiles sorted by -len(read_names), first two; the order among
\* tiles with as many reads is the dict's
ControlTileChoices(f, possible_tiles) ==
    LET impossible_tiles == {k \in DOMAIN f.fastq_tiles :
                                \A i \in 1..Len(possible_tiles) : possible_tiles[i] # k}
        n == IF Cardinality(impossible_tiles) < 2
             THEN Cardinality(impossible_tiles) ELSE 2
    IN {C \in SUBSET impossible_tiles :
          /\ Cardinality(C) = n
          /\ \A c \in C, d \in impossible_tiles \ C :
                f.fastq_tiles[c] >= f.fastq_tiles[d]}

\* the least correlation is kept
MaxOf_least(S) == CHOOSE m \in S : \A x \in S : m <= x

\* lines 153-163: control_corr starts at 0 and takes every greater corr
MaxOf(S) == CHOOSE m \in S : \A x \in S : x <= m

\* self.hitting_tiles is not emptied before the candidates are tried
find_hitting_tiles_no_reset(f, side1, possible_tile_keys, snr10, corr, control_tiles, align_tr) ==
    LET possible_tiles == InCatalog(f, possible_tile_keys)
        fft == set_fft(f.image_data, FqImScaledDims)
        control_corr == MaxOf({0} \cup {corr[c] : c \in control_tiles})
        hits(k) == 10 * corr[k] > snr10 * control_corr
        hitting_tiles == f.hitting_tiles \o SelectSeq(possible_tiles, hits)
    IN IF fft.raises THEN Raised(f, "fft_padding")
       ELSE Returned([f EXCEPT !.image_data.fft = fft.fft,
                               !.control_corr = control_corr,
                               !.hitting_tiles = hitting_tiles,
                               !.aligned = [k \in DOMAIN f.aligned |->
                                   IF \E i \in 1..Len(hitting_tiles) : hitting_tiles[i] = k
                                   THEN align_tr[k] ELSE f.aligned[k]],
                               !.snr = [k \in DOMAIN f.snr |->
                                   IF \E i \in 1..Len(hitting_tiles) : hitting_tiles[i] = k
                                   THEN RoughSnr(k) ELSE f.snr[k]]],
                     NoRelations)

\* max_corr >= snr_thresh * self.control_corr
find_hitting_tiles_geq(f, side1, possible_tile_keys, snr10, corr, control_tiles, align_tr) ==
    LET possible_tiles == InCatalog(f, possible_tile_keys)
        fft == set_fft(f.image_data, FqImScaledDims)
        control_corr == MaxOf({0} \cup {corr[c] : c \in control_tiles})
        hits(k) == 10 * corr[k] >= snr10 * control_corr
        hitting_tiles == SelectSeq(possible_tiles, hits)
    IN IF fft.raises THEN Raised(f, "fft_padding")
       ELSE Returned([f EXCEPT !.image_data.fft = fft.fft,
                               !.control_corr = control_corr,
                               !.hitting_tiles = hitting_tiles,
                               !.aligned = [k \in DOMAIN f.aligned |->
                                   IF \E i \in 1..Len(hitting_tiles) : hitting_tiles[i] = k
                                   THEN align_tr[k] ELSE f.aligned[k]],
                               !.snr = [k \in DOMAIN f.snr |->
                                   IF \E i \in 1..Len(hitting_tiles) : hitting_tiles[i] = k
                                   THEN RoughSnr(k) ELSE f.snr[k]]],
                     NoRelations)

find_hitting_tiles(f, side1, possible_tile_keys, snr10, corr, control_tiles, align_tr) ==
    LET floor_possible_tile_keys ==
            [i \in 1..Len(possible_tile_keys) |-> Side1Key(possible_tile_keys[i])]
        side_tiles == IF side1 THEN InCatalog(f, floor_possible_tile_keys)
                      ELSE InCatalog(f, possible_tile_keys)
        \* line 141: assigned again, whatever the side
        possible_tiles == InCatalog(f, possible_tile_keys)
        fft == set_fft(f.image_data, FqImScaledDims)
        control_corr == MaxOf({0} \cup {corr[c] : c \in control_tiles})
        hits(k) == 10 * corr[k] > snr10 * control_corr
        hitting_tiles == SelectSeq(possible_tiles, hits)
    IN IF fft.raises THEN Raised(f, "fft_padding")
       ELSE Returned([f EXCEPT !.image_data.fft = fft.fft,
                               !.control_corr = control_corr,
                               !.hitting_tiles = hitting_tiles,
                               !.aligned = [k \in DOMAIN f.aligned |->
                                   IF \E i \in 1..Len(hitting_tiles) : hitting_tiles[i] = k
                                   THEN align_tr[k] ELSE f.aligned[k]],
                               !.snr = [k \in DOMAIN f.snr |->
                                   IF \E i \in 1..Len(hitting_tiles) : hitting_tiles[i] = k
                                   THEN RoughSnr(k) ELSE f.snr[k]]],
                     NoRelations)

rough_align(f, side1, possible_tile_keys, snr10, corr, control_tiles, align_tr) ==
    IF f.image_data = NoImage \/ DOMAIN f.fastq_tiles = {}
    THEN Raised(f, "mappings")
    ELSE find_hitting_tiles(set_fastq_tile_mappings(f), side1, possible_tile_keys,
                            snr10, corr, control_tiles, align_tr)

(***************************************************************************)
(* set_tile_alignment, alignment_from_alignment_file                       *)
(***************************************************************************)
RECURSIVE AppendNew(_, _)
AppendNew(hitting, keys) ==
    IF keys = <<>> THEN hitting
    ELSE AppendNew(IF \E i \in 1..Len(hitting) : hitting[i] = Head(keys)
                   THEN hitting ELSE Append(hitting, Head(keys)), Tail(keys))

\* The scale, rotation and offset a tile holds are kept as the name of the
\* solution they come from: the entry of tile k in an alignment record, or
\* the least-squares solution found for tile k.
RecordedTransform(k) == <<"record", k>>
SolvedTransform(k) == <<"lsq", k>>

\* astats: the tile keys of the record's entries; transformed: where each
\* recorded transform puts the reads of its tile.  Every entry handled runs
\* set_tile_alignment, and with it set_fastq_tile_mappings (line 74).
alignment_from_alignment_file(f, astats, transformed) ==
    LET missing == {i \in 1..Len(astats) : astats[i] \notin DOMAIN f.fastq_tiles}
        \* the entries handled before fastq_tiles[tile_key] fails
        done == IF missing = {} THEN astats
                ELSE SubSeq(astats, 1, (CHOOSE i \in missing :
                                           \A j \in missing : i <= j) - 1)
        f1 == [f EXCEPT !.hitting_tiles = AppendNew(<<>>, done),
                        !.aligned = [k \in DOMAIN f.aligned |->
                            IF \E i \in 1..Len(done) : done[i] = k
                            THEN transformed[k] ELSE f.aligned[k]],
                        !.transform = [k \in DOMAIN f.transform |->
                            IF \E i \in 1..Len(done) : done[i] = k
                            THEN RecordedTransform(k) ELSE f.transform[k]],
                        !.mappings_runs = @ + Len(done)]
    IN IF missing # {} THEN Raised(f1, "tile_key") ELSE Returned(f1, NoRelations)

(***************************************************************************)
(* remove_longest_hits, least_squares_mapping (one tile)                   *)
(***************************************************************************)
remove_longest_hits(f, hits) ==
    IF hits = {} THEN {}
    ELSE LET dists == SortedDists(f.clusters, f.aligned_rcs_in_frame, hits)
             thresh == Thresh(Percentile20(dists, 18))
         IN {h \in hits :
               Leq(single_hit_dist(f.clusters, f.aligned_rcs_in_frame, h), thresh)}

\* the trimmed pool of the tile just classified
TilePool(f) == remove_longest_hits(f, f.exclusive_hits \cup f.good_mutual_hits)

(***************************************************************************)
(* read_names_rcs, all_reads_fic_from_aligned_fic                          *)
(***************************************************************************)
\* lines 411-413: a line is [name, row, column], the read being named by its
\* tile and its index in the tile
RECURSIVE ReadNamesOfTile(_, _, _, _)
ReadNamesOfTile(key, aligned_rcs, im_shape, i) ==
    IF i > Len(aligned_rcs) THEN <<>>
    ELSE (IF 0 <= aligned_rcs[i][1] /\ aligned_rcs[i][1] < im_shape[1]
             /\ 0 <= aligned_rcs[i][2] /\ aligned_rcs[i][2] < im_shape[2]
          THEN <<[name |-> <<key, i>>, row |-> aligned_rcs[i][1],
                  column |-> aligned_rcs[i][2]]>>
          ELSE <<>>) \o ReadNamesOfTile(key, aligned_rcs, im_shape, i + 1)

\* the tile is not asked whether it has a rotation
TileLines_no_skip(f, tile) ==
    ReadNamesOfTile(tile, f.aligned[tile], f.image_data.shape, 1)

\* lines 407-413: the lines of one hitting tile
TileLines(f, tile) ==
    IF f.transform[tile] = NoTransform THEN <<>>
    ELSE ReadNamesOfTile(tile, f.aligned[tile], f.image_data.shape, 1)

RECURSIVE ReadNamesOfTiles(_, _)
ReadNamesOfTiles(f, k) ==
    IF k > Len(f.hitting_tiles) THEN <<>>
    ELSE TileLines(f, f.hitting_tiles[k]) \o ReadNamesOfTiles(f, k + 1)

read_names_rcs(f) == ReadNamesOfTiles(f, 1)

\* every tile of all_reads is loaded
all_reads_fic_from_aligned_fic_all_keys(self, other_fic, all_reads, rest) ==
    LET f1 == load_reads(self, all_reads, DOMAIN all_reads)
        f2 == [f1 EXCEPT !.image_data = other_fic.image_data]
        hitting == other_fic.hitting_tiles
        given == {k \in DOMAIN f2.fastq_tiles :
                    /\ \E i \in 1..Len(hitting) : hitting[i] = k
                    /\ other_fic.transform[k] # NoTransform}
    IN IF f2.image_data = NoImage \/ DOMAIN f2.fastq_tiles = {}
       THEN Raised(f2, "mappings")
       ELSE IF \E i \in 1..Len(hitting) : hitting[i] \notin DOMAIN f2.fastq_tiles
       THEN Raised(set_fastq_tile_mappings(f2), "tile_key")
       ELSE Returned([set_fastq_tile_mappings(f2) EXCEPT
                        !.hitting_tiles = hitting,
                        !.clusters = other_fic.clusters,
                        !.transform = [k \in DOMAIN f2.transform |->
                            IF k \in given THEN other_fic.transform[k] ELSE @[k]],
                        !.aligned = [k \in DOMAIN f2.aligned |->
                            IF k \in given
                            THEN [i \in 1..f2.fastq_tiles[k] |->
                                    IF i <= Len(other_fic.aligned[k])
                                    THEN other_fic.aligned[k][i]
                                    ELSE rest[k][i - Len(other_fic.aligned[k])]]
                            ELSE @[k]]],
                     NoRelations)

\* lines 50-68, self being a fresh engine.  all_reads: tile key -> number of
\* reads, the alignment reads of a tile coming first among them; rest: where
\* a tile's transform puts its other reads.  A read has the native
\* coordinates its name gives it, so the transform that put an alignment read
\* at a point of other_fic puts it at the same point here.
all_reads_fic_from_aligned_fic(self, other_fic, all_reads, rest) ==
    LET hitting == other_fic.hitting_tiles
        f1 == load_reads(self, all_reads, {hitting[i] : i \in 1..Len(hitting)})
        f2 == [f1 EXCEPT !.image_data = other_fic.image_data]
        \* the tiles whose scale, rotation and offset can be read (lines 60-63)
        given == {k \in DOMAIN f2.fastq_tiles :
                    /\ \E i \in 1..Len(hitting) : hitting[i] = k
                    /\ other_fic.transform[k] # NoTransform}
    IN IF f2.image_data = NoImage \/ DOMAIN f2.fastq_tiles = {}
       THEN Raised(f2, "mappings")
       ELSE IF \E i \in 1..Len(hitting) : hitting[i] \notin DOMAIN f2.fastq_tiles
       THEN Raised(set_fastq_tile_mappings(f2), "tile_key")
       ELSE Returned([set_fastq_tile_mappings(f2) EXCEPT
                        !.hitting_tiles = hitting,
                        !.clusters = other_fic.clusters,
                        !.transform = [k \in DOMAIN f2.transform |->
                            IF k \in given THEN other_fic.transform[k] ELSE @[k]],
                        !.aligned = [k \in DOMAIN f2.aligned |->
                            IF k \in given
                            THEN [i \in 1..f2.fastq_tiles[k] |->
                                    IF i <= Len(other_fic.aligned[k])
                                    THEN other_fic.aligned[k][i]
                                    ELSE rest[k][i - Len(other_fic.aligned[k])]]
                            ELSE @[k]]],
                     NoRelations)

(***************************************************************************)
(* The engine under test: one call at a time, its outcome kept in result.  *)
(***************************************************************************)
NoCall == [side1 |-> FALSE, possible_tile_keys |-> <<>>, corr |-> EmptyFn,
           snr10 |-> 0, control_tiles |-> {}, padding |-> <<0, 0>>]
NoResult == [op |-> "none", status |-> "none", site |-> "none", nn |-> NoRelations,
             call |-> NoCall, out |-> <<>>]
Outcome(op, r) == [op |-> op, status |-> r.status, site |-> r.site, nn |-> r.nn,
                   call |-> NoCall, out |-> <<>>]

\* no driver runs: the engine is exercised on its own
DriverIdle ==
    /\ params = [um_per_pixel |-> 0, min_hits |-> 0]
    /\ cur = 0
    /\ images = <<>>
    /\ stats_files = EmptyFn
    /\ rcs_files = EmptyFn
    /\ run = "none"
    /\ scan = [row |-> 0, state |-> "none", end_tiles |-> <<>>]

NoFrame == [min_hits |-> 0, i |-> 0, found_good_mapping |-> FALSE, pools |-> <<>>]

\* the tile keys a caller restricts rough alignment to; <<2, 3>> names a tile
\* without alignment reads
CandidateKeys == {<<2, 1>>, <<2, 2>>}
PossibleKeys == CandidateKeys \cup {<<2, 3>>}

\* lists of distinct keys in ascending tile order
KeyLists(S, n) == {s \in SeqsUpTo(S, n) :
                     \A i, j \in 1..Len(s) : i < j => s[i][2] < s[j][2]}

\* every placement of the reads of the listed tiles (tile.aligned_rcs)
RECURSIVE Placements(_, _, _)
Placements(tiles, fastq_tiles, base) ==
    IF tiles = <<>> THEN {base}
    ELSE UNION { Placements(Tail(tiles), fastq_tiles,
                            [base EXCEPT ![Head(tiles)] = a]) :
                 a \in {b \in [1..fastq_tiles[Head(tiles)] -> ReadPoints] :
                          RowMajor(b)} }

\* find_hits called on an engine holding an image, clusters and aligned tiles
InitHits ==
    /\ \E um \in UmChoices, point_rcs \in ClusterConfigs(MaxClusters),
          hitting \in KeyLists(CandidateKeys, 2) \ {<<>>} :
        LET f0 == load_reads(FastqImageAligner, EngineTileData, AllKeys)
            f1 == set_sexcat_from_file(set_image_data(f0, 1, um), point_rcs)
        IN \E al \in Placements(hitting, f0.fastq_tiles, f0.aligned) :
              fia = [f1 EXCEPT !.hitting_tiles = hitting, !.aligned = al,
                               !.snr = [k \in DOMAIN f1.snr |->
                                   IF \E i \in 1..Len(hitting) : hitting[i] = k
                                   THEN RoughSnr(k) ELSE NoSnr]]
    /\ pc = "aligned"
    /\ result = NoResult
    /\ frame = NoFrame
    /\ DriverIdle

FindHits(consider_tiles) ==
    /\ pc = "aligned"
    /\ \E in \in FindHitsInputs(fia, consider_tiles) :
          LET r == find_hits(fia, consider_tiles, in.kd, in.empty_pct)
          IN /\ fia' = r.fia
             /\ result' = Outcome("find_hits", r)
    /\ pc' = "done"
    /\ UNCHANGED <<frame, driver>>

FindHitsAll == FindHits(AllTiles)
FindHitsTile == \E k \in 1..Len(fia.hitting_tiles) : FindHits(OneTile(fia.hitting_tiles[k]))

NextHits == FindHitsAll \/ FindHitsTile
SpecHits == InitHits /\ [][NextHits]_vars

(***************************************************************************)
(* The engine from construction: an image and its clusters are loaded, the *)
(* tiles are aligned roughly or from an alignment record, then             *)
(* precision_align_only runs, one hitting tile of least_squares_mapping    *)
(* per step.                                                               *)
(***************************************************************************)
MaxCorr == 2
MaxMinHits == 2

InitEngine ==
    /\ fia = load_reads(FastqImageAligner, EngineTileData, AllKeys)
    /\ pc = "constructed"
    /\ result = NoResult
    /\ frame = NoFrame
    /\ DriverIdle

\* an engine whose catalog may consist of the candidate tiles alone, and on
\* which an earlier find_hitting_tiles may have left a hitting tile
InitRough ==
    /\ \E valid_keys \in {AllKeys, CandidateKeys}, earlier \in {<<>>, <<<<2, 1>>>>} :
          LET f == load_reads(FastqImageAligner, EngineTileData, valid_keys)
          IN fia = [f EXCEPT !.hitting_tiles = earlier,
                             !.aligned = [k \in DOMAIN f.aligned |->
                                 IF earlier # <<>> /\ k = earlier[1]
                                 THEN [i \in 1..f.fastq_tiles[k] |-> <<0, 0>>]
                                 ELSE NoRcs],
                             !.snr = [k \in DOMAIN f.snr |->
                                 IF earlier # <<>> /\ k = earlier[1]
                                 THEN RoughSnr(k) ELSE NoSnr]]
    /\ pc = "constructed"
    /\ result = NoResult
    /\ frame = NoFrame
    /\ DriverIdle

LoadImage ==
    /\ pc = "constructed"
    /\ \E um \in UmChoices, point_rcs \in ClusterConfigs(MaxClusters) :
          fia' = set_sexcat_from_file(set_image_data(fia, 1, um), point_rcs)
    /\ pc' = "loaded"
    /\ UNCHANGED <<result, frame, driver>>

\* set_image_data alone: find_hitting_tiles reads the image, not the clusters
SetImageData ==
    /\ pc = "constructed"
    /\ \E um \in UmChoices : fia' = set_image_data(fia, 1, um)
    /\ pc' = "loaded"
    /\ UNCHANGED <<result, frame, driver>>

RoughAlign ==
    /\ pc \in {"constructed", "loaded"}
    /\ \E side1 \in BOOLEAN, possible_tile_keys \in KeyLists(PossibleKeys, 2),
          corr \in [DOMAIN fia.fastq_tiles -> 0..MaxCorr] :
        \E control_tiles \in ControlTileChoices(fia, InCatalog(fia, possible_tile_keys)) :
          LET r0 == rough_align(fia, side1, possible_tile_keys, SnrThresh10, corr,
                                control_tiles, fia.aligned)
          IN \E align_tr \in Placements(r0.fia.hitting_tiles, fia.fastq_tiles,
                                        fia.aligned) :
               LET r == rough_align(fia, side1, possible_tile_keys, SnrThresh10,
                                    corr, control_tiles, align_tr)
               IN /\ fia' = r.fia
                  /\ result' = [Outcome("rough_align", r) EXCEPT !.call =
                                   [side1 |-> side1,
                                    possible_tile_keys |-> possible_tile_keys,
                                    corr |-> corr, snr10 |-> SnrThresh10,
                                    control_tiles |-> control_tiles,
                                    padding |-> FqImScaledDims]]
                  /\ pc' = IF r.status = "ok" THEN "aligned" ELSE "raised"
    /\ UNCHANGED <<frame, driver>>

AlignmentFromAlignmentFile ==
    /\ pc = "loaded"
    /\ \E astats \in KeyLists(PossibleKeys, 2) :
        \E transformed \in Placements(InCatalog(fia, astats), fia.fastq_tiles,
                                      fia.aligned) :
          LET r == alignment_from_alignment_file(fia, astats, transformed)
          IN /\ fia' = r.fia
             /\ result' = Outcome("alignment_from_alignment_file", r)
             /\ pc' = IF r.status = "ok" THEN "aligned" ELSE "raised"
    /\ UNCHANGED <<frame, driver>>

\* the loop is entered without the test of hitting_tiles
precision_align_only_no_guard(min_hits) ==
    /\ pc = "aligned"
    /\ frame' = [min_hits |-> min_hits, i |-> 1,
                 found_good_mapping |-> FALSE, pools |-> <<>>]
    /\ pc' = "lsq"
    /\ UNCHANGED <<fia, result, driver>>

\* precision_align_only, lines 378-381: the guard, then the loop is entered
precision_align_only(min_hits) ==
    /\ pc = "aligned"
    /\ IF fia.hitting_tiles = <<>>
       THEN /\ result' = Outcome("precision_align_only",
                                 Raised(fia, "alignment_not_found"))
            /\ pc' = "raised"
            /\ UNCHANGED <<fia, frame>>
       ELSE /\ frame' = [min_hits |-> min_hits, i |-> 1,
                         found_good_mapping |-> FALSE, pools |-> <<>>]
            /\ pc' = "lsq"
            /\ UNCHANGED <<fia, result>>
    /\ UNCHANGED driver

PrecisionAlignOnly ==
    /\ cur = 0
    /\ \E min_hits \in 1..MaxMinHits : precision_align_only(min_hits)

\* Where the least-squares transform of lines 347-362 puts the reads of the
\* tile.  With at most two hits the system A x = b has an exact solution, so
\* a read of the pool lands on the centroid it was matched with; the other
\* reads, and all reads once the system is overdetermined, may land anywhere.
LeastSquaresPlacements(f, tile, hits) ==
    LET n == f.fastq_tiles[tile]
        in_frame == f.aligned_rcs_in_frame
        matched(i) == {h \in hits : in_frame[h[2]].idx = i}
        \* the reads the solution does not pin down, and where it pins the others
        free == {i \in 1..n : Cardinality(hits) > 2 \/ matched(i) = {}}
        exact(i) == {f.clusters[h[1]] : h \in matched(i)}
    IN IF \E i \in (1..n) \ free : Cardinality(exact(i)) > 1 THEN {}
       ELSE {[i \in 1..n |-> IF i \in free THEN g[i]
                              ELSE CHOOSE c \in exact(i) : TRUE] :
                g \in [free -> ReadPoints \cup ClusterPoints]}

\* a pool of exactly min_hits hits is passed over
PoolReached_more(hits, min_hits) == Cardinality(hits) > min_hits

\* lines 343-346: the tile is solved unless len(hits) < min_hits
PoolReached(hits, min_hits) == ~(Cardinality(hits) < min_hits)

\* least_squares_mapping, lines 338-365: one pass of the loop
LeastSquaresTile ==
    /\ pc = "lsq"
    /\ frame.i <= Len(fia.hitting_tiles)
    /\ LET tile == fia.hitting_tiles[frame.i]
       IN \E in \in FindHitsInputs(fia, OneTile(tile)) :
            LET r == find_hits(fia, OneTile(tile), in.kd, in.empty_pct)
                hits == TilePool(r.fia)
                next(found) == [frame EXCEPT !.i = @ + 1,
                                  !.found_good_mapping = found,
                                  !.pools = Append(@, Cardinality(hits))]
            IN IF r.status # "ok"
               THEN /\ fia' = r.fia
                    /\ result' = Outcome("precision_align_only", r)
                    /\ pc' = "raised"
                    /\ UNCHANGED <<frame, driver>>
               ELSE IF ~PoolReached(hits, frame.min_hits)
               THEN /\ fia' = r.fia
                    /\ frame' = next(frame.found_good_mapping)
                    /\ UNCHANGED <<pc, result, driver>>
               ELSE /\ \E aligned_rcs \in LeastSquaresPlacements(r.fia, tile, hits) :
                         fia' = [r.fia EXCEPT !.aligned[tile] = aligned_rcs,
                                              !.transform[tile] = SolvedTransform(tile),
                                              !.snr[tile] = SolvedSnr(tile)]
                    /\ frame' = next(TRUE)
                    /\ UNCHANGED <<pc, result, driver>>

\* lines 366 and 382-383: the loop is over
LeastSquaresDone ==
    /\ pc = "lsq"
    /\ frame.i > Len(fia.hitting_tiles)
    /\ IF ~frame.found_good_mapping
       THEN /\ result' = Outcome("precision_align_only",
                                 Raised(fia, "could_not_precision_align"))
            /\ pc' = "raised"
       ELSE /\ pc' = "final"
            /\ UNCHANGED result
    /\ UNCHANGED <<fia, frame, driver>>

\* precision_align_only returns without the classification of line 386
FinalFindHits_skipped ==
    /\ pc = "final"
    /\ result' = Outcome("precision_align_only", Returned(fia, NoRelations))
    /\ pc' = "returned"
    /\ UNCHANGED <<fia, frame, driver>>

\* line 386: the classification over all hitting tiles
FinalFindHits ==
    /\ pc = "final"
    /\ \E in \in FindHitsInputs(fia, AllTiles) :
          LET r == find_hits(fia, AllTiles, in.kd, in.empty_pct)
          IN /\ fia' = r.fia
             /\ result' = Outcome("precision_align_only", r)
             /\ pc' = IF r.status = "ok" THEN "returned" ELSE "raised"
    /\ UNCHANGED <<frame, driver>>

NoStats == [exists |-> FALSE, tiles |-> <<>>, hits |-> <<0, 0, 0, 0>>]

\* lines 389-401: one entry per tile of hitting_tiles (its key stands for the
\* entry), and the sizes of the four hit sets
alignment_stats(f) ==
    [exists |-> TRUE, tiles |-> f.hitting_tiles,
     hits |-> <<Cardinality(f.exclusive_hits), Cardinality(f.good_mutual_hits),
                Cardinality(f.bad_mutual_hits), Cardinality(f.non_mutual_hits)>>]

\* the alignment_stats property read on an engine precision_align_only
\* returned on, as write_output does (the hit counts and the tiles of the
\* record); result keeps the relations of the last classification
AlignmentStats ==
    /\ pc = "returned"
    /\ result' = [result EXCEPT !.op = "alignment_stats", !.out = alignment_stats(fia)]
    /\ pc' = "reported"
    /\ UNCHANGED <<fia, frame, driver>>

NextRough == SetImageData \/ RoughAlign
SpecRough == InitRough /\ [][NextRough]_vars

NextEngine ==
    \/ LoadImage
    \/ AlignmentFromAlignmentFile
    \/ PrecisionAlignOnly
    \/ LeastSquaresTile
    \/ LeastSquaresDone
    \/ FinalFindHits
    \/ AlignmentStats

SpecEngine == InitEngine /\ [][NextEngine]_vars

(***************************************************************************)
(* The output of an aligned engine, as write_output takes it: the engine   *)
(* with all reads is built from the aligned one, and the read lines are    *)
(* taken.  The aligned engine is one that rough_align left (no tile holds  *)
(* a solved transform), or one that precision_align_only returned on (the  *)
(* tiles whose pool reached min_hits hold one), or one loaded from an      *)
(* alignment record (every tile holds one); its hit sets play no part in   *)
(* the output and are left empty.                                          *)
(***************************************************************************)
\* all_tile_data holds, for every tile, one read more than the alignment reads
ExtraReads == 1
AllTileData == [k \in AllKeys |-> EngineTileData[k] + ExtraReads]

InitOut ==
    /\ \E hitting \in KeyLists(CandidateKeys, 2) \ {<<>>}, control_corr \in 0..1 :
        \E solved \in SUBSET {hitting[i] : i \in 1..Len(hitting)} :
          LET f0 == load_reads(FastqImageAligner, EngineTileData, AllKeys)
              f1 == set_sexcat_from_file(
                        set_image_data(f0, 1, CHOOSE um \in UmChoices : TRUE),
                        <<<<0, 0>>>>)
          IN \E al \in Placements(hitting, f0.fastq_tiles, f0.aligned) :
                fia = [set_fastq_tile_mappings(f1) EXCEPT
                          !.hitting_tiles = hitting,
                          !.aligned = al,
                          !.control_corr = control_corr,
                          !.transform = [k \in DOMAIN f1.transform |->
                              IF k \in solved THEN SolvedTransform(k) ELSE NoTransform],
                          !.snr = [k \in DOMAIN f1.snr |->
                              IF k \in solved THEN SolvedSnr(k)
                              ELSE IF \E i \in 1..Len(hitting) : hitting[i] = k
                                   THEN RoughSnr(k) ELSE NoSnr]]
    /\ pc = "aligned"
    /\ result = NoResult
    /\ frame = NoFrame
    /\ DriverIdle

\* all_fastq_image_aligner.all_reads_fic_from_aligned_fic(fastq_image_aligner,
\* all_tile_data): from here on fia is the engine with all reads
AllReadsFicFromAlignedFic ==
    /\ pc = "aligned"
    /\ \E rest \in [{fia.hitting_tiles[i] : i \in 1..Len(fia.hitting_tiles)}
                      -> [1..ExtraReads -> ReadPoints]] :
          LET r == all_reads_fic_from_aligned_fic(FastqImageAligner, fia, AllTileData, rest)
          IN /\ fia' = r.fia
             /\ result' = Outcome("all_reads_fic_from_aligned_fic", r)
             /\ pc' = IF r.status = "ok" THEN "rebuilt" ELSE "raised"
    /\ UNCHANGED <<frame, driver>>

\* the read_names_rcs property, iterated to its end
ReadNamesRcs ==
    /\ pc \in {"aligned", "rebuilt"}
    /\ result' = [Outcome("read_names_rcs", Returned(fia, NoRelations))
                    EXCEPT !.out = read_names_rcs(fia)]
    /\ pc' = "read"
    /\ UNCHANGED <<fia, frame, driver>>

NextOut == AllReadsFicFromAlignedFic \/ ReadNamesRcs
SpecOut == InitOut /\ [][NextOut]_vars

(***************************************************************************)
(* ImageData.set_fft on its own: an image of any shape, any padding, the   *)
(* call made up to twice on the same image.  SetFftForced is the call with *)
(* np.pad made to return an array of another shape than the square asked   *)
(* for, which is the case the guard of line 30 is written for.             *)
(***************************************************************************)
MaxSide == 4
MaxPad == 2

InitFft ==
    /\ \E h, w \in 1..MaxSide :
          LET f == set_image_data(FastqImageAligner, 1, CHOOSE um \in UmChoices : TRUE)
          IN fia = [f EXCEPT !.image_data.shape = <<h, w>>]
    /\ pc = "loaded"
    /\ result = NoResult
    /\ frame = NoFrame
    /\ DriverIdle

\* one call of set_fft(padding), padded_im being what np.pad returned
SetFftCall(op, padding, padded_im) ==
    LET r == set_fft_of(fia.image_data, padding, padded_im)
        f == [fia EXCEPT !.image_data.fft = r.fft]
    IN /\ fia' = f
       /\ result' = [Outcome(op, IF r.raises THEN Raised(f, "fft_padding")
                                 ELSE Returned(f, NoRelations))
                        EXCEPT !.call.padding = padding]
       /\ pc' = IF pc = "loaded" THEN "fft" ELSE "done"
       /\ UNCHANGED <<frame, driver>>

SetFft ==
    /\ pc \in {"loaded", "fft"}
    /\ \E ph, pw \in 0..MaxPad :
          SetFftCall("set_fft", <<ph, pw>>, PaddedIm(fia.image_data, <<ph, pw>>))

SetFftForced ==
    /\ pc \in {"loaded", "fft"}
    /\ \E ph, pw \in 0..MaxPad :
          LET d == Dimension(fia.image_data, <<ph, pw>>)
          IN \E padded_im \in {<<d, d + 1>>, <<d + 1, d>>} :
                SetFftCall("set_fft, padded shape forced", <<ph, pw>>, padded_im)

NextFft == SetFft \/ SetFftForced
SpecFft == InitFft /\ [][NextFft]_vars

(***************************************************************************)
(* The driver.  A worker call processes one image on its own engine (fia); *)
(* the calls of one pool map touch no common state, so they are taken one  *)
(* at a time, in any order.                                                *)
(***************************************************************************)
NumImages == 2
ScanRows == 2

Images == 1..NumImages
Channels == {"alignment", "data"}

\* the alignment reads the template engine is loaded with
DriverTileData == [k \in {<<1, 1>>, <<2, 1>>} |-> 1]
DriverPossibleKeys == <<<<2, 1>>>>

\* the template engine handed to every worker call
prefia == load_reads(FastqImageAligner, DriverTileData, DOMAIN DriverTileData)

\* the score of an alignment record, derived from its hit counts
Score(stats) == stats.hits[1] + stats.hits[2]

\* no stats file is ever found to hold a score
load_existing_score_zero(stats) == 0

load_existing_score(stats) == IF stats.exists THEN Score(stats) ELSE 0

alignment_is_complete(stats) == load_existing_score(stats) > 0

\* the two files of one image after write_output
write_output(stats, rcs, f) ==
    IF load_existing_score(stats) > 0
    THEN [stats |-> stats, rcs |-> rcs]
    ELSE [stats |-> alignment_stats(f), rcs |-> TRUE]

process_alignment_image(f, image, um_per_pixel, sexcat_exists, point_rcs, side1, possible_tile_keys, snr10, corr, control_tiles, align_tr) ==
    LET f1 == set_image_data(f, image, um_per_pixel)
    IN IF ~sexcat_exists THEN Returned(f1, NoRelations)
       ELSE rough_align(set_sexcat_from_file(f1, point_rcs), side1, possible_tile_keys,
                        snr10, corr, control_tiles, align_tr)

\* the outcomes of process_alignment_image on a copy of engine f
ProcessAlignmentImage(f, image) ==
    UNION { UNION { LET r0 == process_alignment_image(f, image, params.um_per_pixel,
                                  in[1], in[2], FALSE, DriverPossibleKeys, SnrThresh10,
                                  in[3], control_tiles, f.aligned)
                    IN { [r |-> process_alignment_image(f, image, params.um_per_pixel,
                                  in[1], in[2], FALSE, DriverPossibleKeys, SnrThresh10,
                                  in[3], control_tiles, align_tr),
                          rough |-> in[1]] :
                         align_tr \in Placements(r0.fia.hitting_tiles, f.fastq_tiles,
                                                 f.aligned) } :
                    control_tiles \in ControlTileChoices(f, InCatalog(f, DriverPossibleKeys)) } :
            in \in BOOLEAN \X ClusterConfigs(MaxClusters)
                     \X [DOMAIN f.fastq_tiles -> 0..MaxCorr] }

FreshImage == [status |-> "pending", phase |-> "Unaligned", error |-> "none"]

\* a worker call is over: its engine is dropped
WorkerIdle ==
    /\ fia' = prefia
    /\ pc' = "idle"
    /\ result' = NoResult
    /\ frame' = NoFrame
    /\ cur' = 0

InitDriver ==
    /\ fia = prefia
    /\ pc = "idle"
    /\ result = NoResult
    /\ frame = NoFrame
    /\ \E um \in UmChoices, min_hits \in 1..MaxMinHits :
          params = [um_per_pixel |-> um, min_hits |-> min_hits]
    /\ cur = 0
    /\ images = [i \in Images |-> FreshImage]
    /\ rcs_files = [k \in Channels \X Images |-> FALSE]
    /\ run = "running"
    /\ scan = [row |-> 0, state |-> "none", end_tiles |-> <<>>]

\* run: the results directory holds no alignment yet
Init ==
    /\ InitDriver
    /\ stats_files = [k \in Channels \X Images |-> NoStats]

\* perform_alignment, lines 83-96: up to the test of fia.hitting_tiles
PerformAlignment(img) ==
    /\ run = "running" /\ cur = 0 /\ images[img].status = "pending"
    /\ IF alignment_is_complete(stats_files[<<"alignment", img>>])
       THEN /\ images' = [images EXCEPT ![img].status = "returned"]
            /\ UNCHANGED <<fia, pc, cur, run>>
       ELSE \E o \in ProcessAlignmentImage(prefia, img) :
              IF o.r.status # "ok"
              THEN /\ images' = [images EXCEPT ![img] =
                          IF o.r.status = "IndexError"
                          THEN [@ EXCEPT !.status = "returned", !.error = o.r.site]
                          ELSE [@ EXCEPT !.status = "raised", !.error = o.r.site]]
                   /\ run' = IF o.r.status = "IndexError" THEN run ELSE "aborted"
                   /\ UNCHANGED <<fia, pc, cur>>
              ELSE IF o.r.fia.hitting_tiles = <<>>
              THEN /\ images' = [images EXCEPT ![img].status = "returned",
                                   ![img].phase = IF o.rough THEN "RoughAligned"
                                                  ELSE "Unaligned"]
                   /\ UNCHANGED <<fia, pc, cur, run>>
              ELSE /\ images' = [images EXCEPT ![img].status = "running",
                                               ![img].phase = "RoughAligned"]
                   /\ fia' = o.r.fia
                   /\ pc' = "aligned"
                   /\ cur' = img
                   /\ UNCHANGED run
    /\ UNCHANGED <<result, frame, params, stats_files, rcs_files, scan>>

\* fia.precision_align_only(min_hits=min_hits), in a worker call
PrecisionAlign ==
    /\ cur # 0
    /\ precision_align_only(params.min_hits)

\* write_output follows the except clause instead of being its else branch
perform_alignment_handler_no_else(status) ==
    CASE status = "ok"         -> [write |-> TRUE,  propagates |-> FALSE]
      [] status = "ValueError" -> [write |-> TRUE,  propagates |-> FALSE]
      [] status = "IndexError" -> [write |-> FALSE, propagates |-> FALSE]
      [] OTHER                 -> [write |-> FALSE, propagates |-> TRUE]

\* lines 97-104 and 109-111: what perform_alignment makes of the way
\* precision_align_only ended
perform_alignment_handler(status) ==
    CASE status = "ok"         -> [write |-> TRUE,  propagates |-> FALSE]
      [] status = "ValueError" -> [write |-> FALSE, propagates |-> FALSE]
      [] status = "IndexError" -> [write |-> FALSE, propagates |-> FALSE]
      [] OTHER                 -> [write |-> FALSE, propagates |-> TRUE]

\* lines 215-224 of process_data_image
process_data_image_handler(status) ==
    CASE status = "ok"         -> [write |-> TRUE,  propagates |-> FALSE]
      [] status = "IndexError" -> [write |-> FALSE, propagates |-> FALSE]
      [] status = "ValueError" -> [write |-> FALSE, propagates |-> FALSE]
      [] OTHER                 -> [write |-> FALSE, propagates |-> TRUE]

\* the worker call ends: output, or the exception is handled or propagates
WorkerEnd(channel, h) ==
    /\ cur # 0 /\ pc \in {"returned", "raised"}
    /\ LET key == <<channel, cur>>
           out == write_output(stats_files[key], rcs_files[key], fia)
       IN /\ stats_files' = IF h.write THEN [stats_files EXCEPT ![key] = out.stats]
                            ELSE stats_files
          /\ rcs_files' = IF h.write THEN [rcs_files EXCEPT ![key] = out.rcs]
                          ELSE rcs_files
    /\ images' = [images EXCEPT ![cur] =
                     [status |-> IF h.propagates THEN "raised" ELSE "returned",
                      phase |-> IF pc = "returned" THEN "PrecisionAligned"
                                ELSE "PrecisionFailed",
                      error |-> IF pc = "raised" THEN result.site ELSE "none"]]
    /\ run' = IF h.propagates THEN "aborted" ELSE run
    /\ WorkerIdle
    /\ UNCHANGED <<params, scan>>

PerformAlignmentEnd == WorkerEnd("alignment", perform_alignment_handler(result.status))

\* map_async(...).get() returned, pool.close(), pool.join()
RunDone ==
    /\ run = "running" /\ cur = 0
    /\ \A img \in Images : images[img].status = "returned"
    /\ run' = "done"
    /\ UNCHANGED <<fia, pc, result, frame, params, cur, images, stats_files,
                   rcs_files, scan>>

Next ==
    \/ \E img \in Images : PerformAlignment(img)
    \/ PrecisionAlign
    \/ LeastSquaresTile
    \/ LeastSquaresDone
    \/ FinalFindHits
    \/ PerformAlignmentEnd
    \/ RunDone

Spec == Init /\ [][Next]_vars

(***************************************************************************)
(* run_data_channel: process_data_image for every image that has an        *)
(* alignment record of the alignment channel in the results directory.     *)
(***************************************************************************)
\* the tile keys an alignment record found in the results directory may
\* list; a record may hold no tile entry
RecordTiles == {<<>>, <<<<2, 1>>>>}

InitData ==
    /\ InitDriver
    /\ \E tiles \in [Images -> RecordTiles] :
          stats_files = [k \in Channels \X Images |->
                           IF k[1] = "alignment"
                           THEN [exists |-> TRUE, tiles |-> tiles[k[2]],
                                 hits |-> <<Len(tiles[k[2]]), 0, 0, 0>>]
                           ELSE NoStats]

\* process_data_image, lines 202-214: up to the try statement
ProcessDataImage(img) ==
    /\ run = "running" /\ cur = 0 /\ images[img].status = "pending"
    /\ stats_files[<<"alignment", img>>].exists
    /\ IF alignment_is_complete(stats_files[<<"data", img>>])
       THEN /\ images' = [images EXCEPT ![img].status = "returned"]
            /\ UNCHANGED <<fia, pc, cur, run, result>>
       ELSE \E point_rcs \in ClusterConfigs(MaxClusters) :
              LET local_fia == set_sexcat_from_file(
                                   set_image_data(prefia, img, params.um_per_pixel),
                                   point_rcs)
                  astats == stats_files[<<"alignment", img>>].tiles
              IN \E transformed \in Placements(InCatalog(local_fia, astats),
                                              local_fia.fastq_tiles, local_fia.aligned) :
                   LET r == alignment_from_alignment_file(local_fia, astats, transformed)
                   IN IF r.status # "ok"
                      THEN /\ images' = [images EXCEPT ![img].status = "raised",
                                                       ![img].error = r.site]
                           /\ run' = "aborted"
                           /\ UNCHANGED <<fia, pc, cur, result>>
                      ELSE /\ images' = [images EXCEPT ![img].status = "running"]
                           /\ fia' = r.fia
                           /\ result' = Outcome("alignment_from_alignment_file", r)
                           /\ pc' = "aligned"
                           /\ cur' = img
                           /\ UNCHANGED run
    /\ UNCHANGED <<frame, params, stats_files, rcs_files, scan>>

ProcessDataImageEnd == WorkerEnd("data", process_data_image_handler(result.status))

NextData ==
    \/ \E img \in Images : ProcessDataImage(img)
    \/ PrecisionAlign
    \/ LeastSquaresTile
    \/ LeastSquaresDone
    \/ FinalFindHits
    \/ ProcessDataImageEnd
    \/ RunDone

SpecData == InitData /\ [][NextData]_vars

(***************************************************************************)
(* check_column_for_alignment: the rows of one column are tried in turn;   *)
(* fia is the function's local engine, first the engine it was called with.*)
(***************************************************************************)
InitScan ==
    /\ fia = prefia
    /\ pc = "idle"
    /\ result = NoResult
    /\ frame = NoFrame
    /\ \E um \in UmChoices : params = [um_per_pixel |-> um, min_hits |-> 0]
    /\ cur = 0
    /\ images = <<>>
    /\ stats_files = EmptyFn
    /\ rcs_files = EmptyFn
    /\ run = "none"
    /\ scan = [row |-> 1, state |-> "scanning", end_tiles |-> <<>>]

\* lines 267-281: one pass of the loop over rows_to_check
CheckRow ==
    /\ scan.state = "scanning"
    /\ scan.row <= ScanRows
    /\ \E image_found \in BOOLEAN :
         IF ~image_found
         THEN /\ scan' = [scan EXCEPT !.state = "returned"]
              /\ UNCHANGED fia
         ELSE \E o \in ProcessAlignmentImage(fia, scan.row) :
                /\ fia' = o.r.fia
                /\ scan' = IF o.r.status # "ok"
                           THEN [scan EXCEPT !.state = "raised"]
                           ELSE IF o.r.fia.hitting_tiles # <<>>
                           THEN [scan EXCEPT !.state = "done",
                                             !.end_tiles = o.r.fia.hitting_tiles]
                           ELSE [scan EXCEPT !.row = @ + 1]
    /\ UNCHANGED <<pc, result, frame, params, cur, images, stats_files, rcs_files, run>>

\* the loop ran out of rows
CheckColumnDone ==
    /\ scan.state = "scanning"
    /\ scan.row > ScanRows
    /\ scan' = [scan EXCEPT !.state = "done"]
    /\ UNCHANGED <<fia, pc, result, frame, params, cur, images, stats_files,
                   rcs_files, run>>

NextScan == CheckRow \/ CheckColumnDone

SpecScan == InitScan /\ [][NextScan]_vars

(***************************************************************************)
(* find_bounds: the columns are tried in the given order; for each column  *)
(* one check_column_for_alignment call per file runs in the pool, all of   *)
(* them at once, and writes the shared end_tiles map.  What a call finds   *)
(* depends on its file and column alone (it works on its own copy of the   *)
(* engine) and is drawn with the initial state.                            *)
(***************************************************************************)
NumColumns == 3

H5Filenames == {"a.h5", "b.h5"}
GridColumns == 1..NumColumns

\* the column orders get_end_tiles asks for: grid.columns and its reverse
ColumnOrders == {[i \in GridColumns |-> i], [i \in GridColumns |-> NumColumns + 1 - i]}

\* how a check_column_for_alignment call ends: no image of the column
\* aligned (or an image was missing), an image aligned, an exception
ColumnOutcomes == {"none", "aligned", "raises"}

NoEntry == <<>>

\* the hitting tile keys reported for an image that aligned
EndTileKeys == <<<<2, 1>>>>

\* the call replaces the whole map by its own entry
WriteEndTiles_alone(end_tiles, h5_filename, keys, column) ==
    [f \in DOMAIN end_tiles |-> IF f = h5_filename THEN <<keys, column>> ELSE NoEntry]

\* line 280: end_tiles[h5_filename] = [tile.key for ...], image.column
WriteEndTiles(end_tiles, h5_filename, keys, column) ==
    [end_tiles EXCEPT ![h5_filename] = <<keys, column>>]

\* line 250: if end_tiles
NonEmpty(end_tiles) == \E f \in DOMAIN end_tiles : end_tiles[f] # NoEntry

InitBounds ==
    /\ fia = prefia
    /\ pc = "idle"
    /\ result = NoResult
    /\ frame = NoFrame
    /\ \E found \in [H5Filenames \X GridColumns -> ColumnOutcomes] :
          params = [um_per_pixel |-> 0, min_hits |-> 0, found |-> found]
    /\ cur = 0
    /\ images = <<>>
    /\ stats_files = EmptyFn
    /\ rcs_files = EmptyFn
    /\ run = "none"
    /\ \E columns \in ColumnOrders :
          scan = [state |-> "next", columns |-> columns, c |-> 1,
                  end_tiles |-> [f \in H5Filenames |-> NoEntry],
                  workers |-> [f \in H5Filenames |-> "idle"],
                  returned |-> [f \in H5Filenames |-> NoEntry]]

BoundsFrame == UNCHANGED <<fia, pc, result, frame, params, cur, images, stats_files, rcs_files, run>>

\* lines 247-249: the next column is handed to the pool
FindBoundsMap ==
    /\ scan.state = "next"
    /\ scan.c <= Len(scan.columns)
    /\ scan' = [scan EXCEPT !.state = "mapping",
                            !.workers = [f \in H5Filenames |-> "queued"]]
    /\ BoundsFrame

\* a pool process takes the call of one file
CheckColumnStart(h5_filename) ==
    /\ scan.state = "mapping"
    /\ scan.workers[h5_filename] = "queued"
    /\ scan' = [scan EXCEPT !.workers[h5_filename] = "running"]
    /\ BoundsFrame

\* check_column_for_alignment, lines 267-282: the call ends
CheckColumnEnd(h5_filename) ==
    /\ scan.state = "mapping"
    /\ scan.workers[h5_filename] = "running"
    /\ LET column == scan.columns[scan.c]
           outcome == params.found[<<h5_filename, column>>]
       IN scan' = [scan EXCEPT
                     !.workers[h5_filename] =
                         IF outcome = "raises" THEN "raised" ELSE "done",
                     !.end_tiles =
                         IF outcome = "aligned"
                         THEN WriteEndTiles(@, h5_filename, EndTileKeys, column)
                         ELSE @]
    /\ BoundsFrame

\* lines 249-251: get() returns when every call of the column ended, and
\* raises when one of them raised
FindBoundsGet ==
    /\ scan.state = "mapping"
    /\ \A f \in H5Filenames : scan.workers[f] \in {"done", "raised"}
    /\ scan' = IF \E f \in H5Filenames : scan.workers[f] = "raised"
               THEN [scan EXCEPT !.state = "raised"]
               ELSE IF NonEmpty(scan.end_tiles)
               THEN [scan EXCEPT !.state = "returned", !.returned = scan.end_tiles]
               ELSE [scan EXCEPT !.state = "next", !.c = @ + 1]
    /\ BoundsFrame

\* line 252: return {}
FindBoundsEmpty ==
    /\ scan.state = "next"
    /\ scan.c > Len(scan.columns)
    /\ scan' = [scan EXCEPT !.state = "returned",
                            !.returned = [f \in H5Filenames |-> NoEntry]]
    /\ BoundsFrame

NextBounds ==
    \/ FindBoundsMap
    \/ \E f \in H5Filenames : CheckColumnStart(f)
    \/ \E f \in H5Filenames : CheckColumnEnd(f)
    \/ FindBoundsGet
    \/ FindBoundsEmpty

SpecBounds == InitBounds /\ [][NextBounds]_vars

(***************************************************************************)
(* least_squares_mapping, lines 358-361: the rotation and the scale are    *)
(* recovered from the solution (alpha, beta).  An angle is kept as the     *)
(* vector it is the direction of; a float is kept as sign * sqrt(n / d),   *)
(* or as the rounding residue np.cos leaves at a right angle (pi / 2 is    *)
(* no double, so the cosine computed there is about 6e-17, not 0).         *)
(***************************************************************************)
MaxCoef == 5

Coefs == (0 - MaxCoef)..MaxCoef

Sgn(x) == IF x > 0 THEN 1 ELSE IF x < 0 THEN 0 - 1 ELSE 0

Float(sign, n, d) == [sign |-> sign, n |-> n, d |-> d, residue |-> FALSE]
Zero == Float(0, 0, 1)
\* a positive double far below the least ratio of the other values
Residue == [sign |-> 1, n |-> 0, d |-> 1, residue |-> TRUE]
\* a double far above every other value, of the sign given
Huge(sign) == [sign |-> sign, n |-> 1, d |-> 0, residue |-> FALSE]

\* np.arctan2(beta, alpha): the angle of the vector (alpha, beta)
arctan2(beta, alpha) == [x |-> alpha, y |-> beta]

\* np.cos(theta)
np_cos(theta) ==
    IF theta.x = 0 /\ theta.y = 0 THEN Float(1, 1, 1)
    ELSE IF theta.x = 0 THEN Residue
    ELSE Float(Sgn(theta.x), theta.x * theta.x, theta.x * theta.x + theta.y * theta.y)

\* alpha / c
Divide(alpha, c) ==
    IF c.residue
    THEN (IF alpha = 0 THEN Zero ELSE Huge(Sgn(alpha)))
    ELSE Float(Sgn(alpha) * c.sign, alpha * alpha * c.d, c.n)

NoSolution == [alpha |-> 0, beta |-> 0, theta |-> arctan2(0, 0), lbda |-> Zero]

\* line 358: a solution of np.linalg.lstsq
InitLsq ==
    /\ fia = prefia
    /\ pc = "solved"
    /\ result = NoResult
    /\ \E alpha \in Coefs, beta \in Coefs :
          frame = [NoSolution EXCEPT !.alpha = alpha, !.beta = beta]
    /\ DriverIdle

\* line 360
ArcTan2 ==
    /\ pc = "solved"
    /\ frame' = [frame EXCEPT !.theta = arctan2(frame.beta, frame.alpha)]
    /\ pc' = "theta"
    /\ UNCHANGED <<fia, result, driver>>

\* line 361
ScaleOfTheta ==
    /\ pc = "theta"
    /\ frame' = [frame EXCEPT !.lbda = Divide(frame.alpha, np_cos(frame.theta))]
    /\ pc' = "scaled"
    /\ UNCHANGED <<fia, result, driver>>

NextLsq == ArcTan2 \/ ScaleOfTheta
SpecLsq == InitLsq /\ [][NextLsq]_vars

(***************************************************************************)
(* calculate_process_count                                                 *)
(***************************************************************************)
MaxImageCount == 70
MaxCpuCount == 4

ChunkLimit == 32

Max2(a, b) == IF a >= b THEN a ELSE b
Min2(a, b) == IF a <= b THEN a ELSE b

\* int(math.ceil(float(a) / float(b)))
CeilDiv(a, b) == (a + b - 1) \div b

\* lines 172-176
calculate_process_count(image_count, cpu_count) ==
    LET num_processes == Max2(cpu_count - 2, 1)
        chunksize == Min2(ChunkLimit, CeilDiv(image_count, num_processes) + 1)
    IN [num_processes |-> num_processes, chunksize |-> chunksize]

InitCount ==
    /\ fia = prefia
    /\ pc = "called"
    /\ result = NoResult
    /\ \E image_count \in 0..MaxImageCount, cpu_count \in 1..MaxCpuCount :
          frame = [image_count |-> image_count, cpu_count |-> cpu_count]
    /\ DriverIdle

CalculateProcessCount ==
    /\ pc = "called"
    /\ result' = [NoResult EXCEPT
                    !.op = "calculate_process_count", !.status = "ok",
                    !.out = calculate_process_count(frame.image_count, frame.cpu_count)]
    /\ pc' = "returned"
    /\ UNCHANGED <<fia, frame, driver>>

NextCount == CalculateProcessCount
SpecCount == InitCount /\ [][NextCount]_vars

(***************************************************************************)
(* align.run over the images of one file: iterate_all_images lists the     *)
(* images to align, perform_alignment is called on each of them, and       *)
(* write_output writes the stats file, then the all_read_rcs file.  The    *)
(* process may be interrupted at any point and align.run be started again. *)
(* An image is the cell <<row, column>> of the grid; what the engine finds *)
(* on an image is taken as given (a new alignment record, or none).        *)
(***************************************************************************)
MaxRunColumn == 2
MaxRuns == 2

\* the grid is one row high
GridRows == {0}
RunColumns == 0..MaxRunColumn
Cells == GridRows \X RunColumns

\* no image is being written
NoCell == <<>>

\* no all_read_rcs file
NoRcsFile == <<>>
\* the all_read_rcs file write_output derives from an alignment record
RcsFileOf(stats) == <<stats>>

\* the alignment records a precision alignment may end with
NewStats == {[exists |-> TRUE, tiles |-> <<<<2, 1>>>>, hits |-> <<e, 0, 0, 0>>] : e \in 0..2}

\* lines 293-306: for column in range(min_column, max_column), for row in
\* range(grid._height), the wanted images in the order they are met
RECURSIVE InOrder(_, _, _, _)
InOrder(column, row, max_column, wanted) ==
    IF column >= max_column THEN <<>>
    ELSE IF row \notin GridRows THEN InOrder(column + 1, 0, max_column, wanted)
    ELSE (IF <<row, column>> \in wanted THEN <<<<row, column>>>> ELSE <<>>)
         \o InOrder(column, row + 1, max_column, wanted)

\* lines 301-303
already_aligned(stats, rcs) == alignment_is_complete(stats) /\ rcs # NoRcsFile

\* iterate_all_images for one file: existing is the set of the cells grid.get
\* has an image for
iterate_all_images(existing, min_column, max_column, stats, rcs) ==
    InOrder(min_column, 0, max_column,
            {c \in existing : ~already_aligned(stats[c], rcs[c])})

\* the states the two files of an image are left in by write_output, whole
\* or interrupted
FileStates ==
    {[stats |-> NoStats, rcs |-> NoRcsFile]}
      \cup UNION {{[stats |-> st, rcs |-> r] : r \in {NoRcsFile, RcsFileOf(st)}} :
                      st \in NewStats}

\* iterate_all_images called on a results directory and a grid
InitIter ==
    /\ fia = prefia
    /\ pc = "idle"
    /\ result = NoResult
    /\ frame = NoFrame
    /\ \E existing \in SUBSET Cells, min_column \in RunColumns, max_column \in RunColumns :
          /\ min_column <= max_column
          /\ params = [um_per_pixel |-> 0, min_hits |-> 0, runs |-> 0,
                       existing |-> existing,
                       min_column |-> min_column, max_column |-> max_column]
    /\ cur = 0
    /\ images = <<>>
    /\ \E files \in [Cells -> FileStates] :
          /\ \A c \in Cells : c \notin params.existing => files[c].stats = NoStats
          /\ stats_files = [c \in Cells |-> files[c].stats]
          /\ rcs_files = [c \in Cells |-> files[c].rcs]
    /\ run = "none"
    /\ scan = [row |-> 0, state |-> "none", end_tiles |-> <<>>]

IterateAllImages ==
    /\ pc = "idle"
    /\ result' = [NoResult EXCEPT
                    !.op = "iterate_all_images", !.status = "ok",
                    !.out = iterate_all_images(params.existing, params.min_column,
                                               params.max_column, stats_files, rcs_files)]
    /\ pc' = "iterated"
    /\ UNCHANGED <<fia, frame, driver>>

NextIter == IterateAllImages
SpecIter == InitIter /\ [][NextIter]_vars

\* align.run was never started on the file: no result is on disk
InitRun ==
    /\ fia = prefia
    /\ pc = "idle"
    /\ result = NoResult
    /\ frame = NoFrame
    /\ params = [um_per_pixel |-> 0, min_hits |-> 0, runs |-> 0,
                 existing |-> Cells,
                 min_column |-> 0, max_column |-> MaxRunColumn]
    /\ cur = NoCell
    /\ images = [c \in Cells |-> "idle"]
    /\ stats_files = [c \in Cells |-> NoStats]
    /\ rcs_files = [c \in Cells |-> NoRcsFile]
    /\ run = "idle"
    /\ scan = [row |-> 0, state |-> "none", end_tiles |-> <<>>]

RunFrame == UNCHANGED <<fia, result, frame, scan>>

\* run, lines 35-38: the images iterate_all_images yields are handed to the pool
AlignRun ==
    /\ run \in {"idle", "done", "interrupted"}
    /\ params.runs < MaxRuns
    /\ LET yielded == iterate_all_images(params.existing, params.min_column,
                                         params.max_column, stats_files, rcs_files)
       IN images' = [c \in Cells |->
                        IF \E i \in 1..Len(yielded) : yielded[i] = c
                        THEN "queued" ELSE "idle"]
    /\ params' = [params EXCEPT !.runs = @ + 1]
    /\ run' = "running"
    /\ UNCHANGED <<pc, cur, stats_files, rcs_files>>
    /\ RunFrame

\* perform_alignment on one image, up to the first write of write_output
\* (lines 86-90, 94-104 and 359-374)
PerformAlignmentCall(c) ==
    /\ run = "running" /\ cur = NoCell /\ images[c] = "queued"
    /\ IF alignment_is_complete(stats_files[c])
       THEN /\ images' = [images EXCEPT ![c] = "done"]
            /\ UNCHANGED <<pc, cur, stats_files>>
       ELSE \E new_stats \in NewStats \cup {NoStats} :
              IF new_stats = NoStats \/ load_existing_score(stats_files[c]) > 0
              THEN /\ images' = [images EXCEPT ![c] = "done"]
                   /\ UNCHANGED <<pc, cur, stats_files>>
              ELSE /\ stats_files' = [stats_files EXCEPT ![c] = new_stats]
                   /\ cur' = c
                   /\ pc' = "stats_written"
                   /\ UNCHANGED images
    /\ UNCHANGED <<params, run, rcs_files>>
    /\ RunFrame

\* write_output, lines 376-381, and the return of perform_alignment
WriteAllReadRcs ==
    /\ run = "running" /\ cur # NoCell /\ pc = "stats_written"
    /\ rcs_files' = [rcs_files EXCEPT ![cur] = RcsFileOf(stats_files[cur])]
    /\ images' = [images EXCEPT ![cur] = "done"]
    /\ cur' = NoCell
    /\ pc' = "idle"
    /\ UNCHANGED <<params, run, stats_files>>
    /\ RunFrame

\* the process is killed
Interrupt ==
    /\ run = "running"
    /\ run' = "interrupted"
    /\ cur' = NoCell
    /\ pc' = "idle"
    /\ UNCHANGED <<params, images, stats_files, rcs_files>>
    /\ RunFrame

\* lines 39-42: every call returned
AlignRunDone ==
    /\ run = "running" /\ cur = NoCell
    /\ \A c \in Cells : images[c] # "queued"
    /\ run' = "done"
    /\ UNCHANGED <<pc, cur, params, images, stats_files, rcs_files>>
    /\ RunFrame

NextRun ==
    \/ AlignRun
    \/ \E c \in Cells : PerformAlignmentCall(c)
    \/ WriteAllReadRcs
    \/ Interrupt
    \/ AlignRunDone

SpecRun == InitRun /\ [][NextRun]_vars

(***************************************************************************)
(* controller/align.py: main, invoked again and again on one image         *)
(* directory.  A stage is named by a pair: <<"main", key>> for the three    *)
(* stages main records under a key of the cache, <<channel, kind>> for the *)
(* combination combo_align records in cache['protein_channels_aligned'].   *)
(* initialize.py is not in src/: load_cache is taken to return the cache   *)
(* save_cache wrote last, and a cache with nothing done before the first   *)
(* save.  A stage may be cut short (an exception, a kill) wherever main is. *)
(***************************************************************************)
MaxInvocations == 3

AlignmentChannel == "phix"
ChannelLists == {<<"phix">>, <<"phix", "a">>, <<"phix", "a", "b">>}

Preprocessing == <<"main", "preprocessed">>
EndTileSearch == <<"main", "end_tiles">>
PhixAlignment == <<"main", "phix_aligned">>
MainStages == {Preprocessing, EndTileSearch, PhixAlignment}
Combos == {"phix", "a", "b"} \X {"on_target", "perfect_target"}
Stages == MainStages \cup Combos

\* the cache of a directory main never worked on
FreshCache ==
    [preprocessed |-> FALSE, end_tiles |-> FALSE, phix_aligned |-> FALSE,
     protein_channels_aligned |-> <<>>]

\* what the tests of lines 26, 60, 69 and 109 read in a cache
Done(cache, stage) ==
    IF stage = Preprocessing THEN cache.preprocessed
    ELSE IF stage = EndTileSearch THEN cache.end_tiles
    ELSE IF stage = PhixAlignment THEN cache.phix_aligned
    ELSE \E i \in 1..Len(cache.protein_channels_aligned) :
            cache.protein_channels_aligned[i] = stage

\* every stage is found to be still to do
Pending_always(cache, stage) == TRUE

Pending(cache, stage) == ~Done(cache, stage)

\* lines 14, 62, 73 and 111
Record(cache, stage) ==
    IF stage = Preprocessing THEN [cache EXCEPT !.preprocessed = TRUE]
    ELSE IF stage = EndTileSearch THEN [cache EXCEPT !.end_tiles = TRUE]
    ELSE IF stage = PhixAlignment THEN [cache EXCEPT !.phix_aligned = TRUE]
    ELSE [cache EXCEPT !.protein_channels_aligned = Append(@, stage)]

\* lines 83-89
ProteinChannels(channels) ==
    LET others == SelectSeq(channels, LAMBDA c : c # AlignmentChannel)
    IN IF others # <<>> THEN others ELSE <<AlignmentChannel>>

\* lines 91-103: the calls of combo_align, in order
RECURSIVE ComboCalls(_, _, _)
ComboCalls(protein_channels, on_target, perfect) ==
    IF protein_channels = <<>> THEN <<>>
    ELSE (IF on_target THEN <<<<Head(protein_channels), "on_target">>>> ELSE <<>>)
         \o (IF perfect THEN <<<<Head(protein_channels), "perfect_target">>>> ELSE <<>>)
         \o ComboCalls(Tail(protein_channels), on_target, perfect)

NotRunning == [cache |-> FreshCache, calls |-> <<>>, fiducial_only |-> FALSE]

InitMain ==
    /\ fia = prefia
    /\ pc = "exited"
    /\ result = NoResult
    /\ frame = NotRunning
    /\ \E channels \in ChannelLists, on_target \in BOOLEAN, perfect \in BOOLEAN :
          params = [um_per_pixel |-> 0, min_hits |-> 0, invocations |-> 0,
                    saved |-> FreshCache, channels |-> channels,
                    on_target |-> on_target, perfect |-> perfect]
    /\ cur = 0
    /\ images = <<>>
    /\ stats_files = <<>>
    /\ rcs_files = <<>>
    /\ run = "none"
    /\ scan = [begun |-> [st \in Stages |-> 0], completed |-> [st \in Stages |-> 0]]

MainFrame == UNCHANGED <<fia, result, cur, images, stats_files, rcs_files, run>>

\* a stage is entered: one more execution of it has begun
Begin(stage, at) ==
    /\ scan' = [scan EXCEPT !.begun[stage] = @ + 1]
    /\ pc' = at

\* a stage has returned: it is recorded in the cache and the cache is saved
Complete(stage, at) ==
    /\ scan' = [scan EXCEPT !.completed[stage] = @ + 1]
    /\ frame' = [frame EXCEPT !.cache = Record(@, stage)]
    /\ params' = [params EXCEPT !.saved = Record(frame.cache, stage)]
    /\ pc' = at

\* lines 24-27
MainStart ==
    /\ pc = "exited"
    /\ params.invocations < MaxInvocations
    /\ params' = [params EXCEPT !.invocations = @ + 1]
    /\ \E fiducial_only \in BOOLEAN :
          frame' = [cache |-> params.saved, calls |-> <<>>, fiducial_only |-> fiducial_only]
    /\ IF Pending(params.saved, Preprocessing)
       THEN Begin(Preprocessing, "preprocess")
       ELSE pc' = "line29" /\ UNCHANGED scan
    /\ MainFrame

\* preprocess, lines 13-15
PreprocessReturns ==
    /\ pc = "preprocess"
    /\ Complete(Preprocessing, "line29")
    /\ MainFrame

\* lines 29-66: error.fail ends main when no file is left
LoadAndSearch ==
    /\ pc = "line29"
    /\ \E has_files \in BOOLEAN :
          IF ~has_files
          THEN pc' = "exited" /\ frame' = NotRunning /\ UNCHANGED scan
          ELSE IF Pending(frame.cache, EndTileSearch)
               THEN Begin(EndTileSearch, "get_end_tiles") /\ UNCHANGED frame
               ELSE pc' = "line69" /\ UNCHANGED <<scan, frame>>
    /\ UNCHANGED params
    /\ MainFrame

\* lines 61-63
GetEndTilesReturns ==
    /\ pc = "get_end_tiles"
    /\ Complete(EndTileSearch, "line69")
    /\ MainFrame

\* line 69
PhixTest ==
    /\ pc = "line69"
    /\ IF Pending(frame.cache, PhixAlignment)
       THEN Begin(PhixAlignment, "align_run")
       ELSE pc' = "line78" /\ UNCHANGED scan
    /\ UNCHANGED <<frame, params>>
    /\ MainFrame

\* lines 71-74, cluster_strategies holding the one strategy 'se'
AlignRunReturns ==
    /\ pc = "align_run"
    /\ Complete(PhixAlignment, "line78")
    /\ MainFrame

\* lines 78-89
FiducialOnlyTest ==
    /\ pc = "line78"
    /\ IF frame.fiducial_only
       THEN pc' = "exited" /\ frame' = NotRunning
       ELSE /\ pc' = "line91"
            /\ frame' = [frame EXCEPT
                           !.calls = ComboCalls(ProteinChannels(params.channels),
                                                params.on_target, params.perfect)]
    /\ UNCHANGED <<scan, params>>
    /\ MainFrame

\* combo_align, lines 108-109, and the return of main after the last call
ComboAlign ==
    /\ pc = "line91"
    /\ IF frame.calls = <<>>
       THEN pc' = "exited" /\ frame' = NotRunning /\ UNCHANGED scan
       ELSE IF Pending(frame.cache, Head(frame.calls))
            THEN Begin(Head(frame.calls), "run_data_channel") /\ UNCHANGED frame
            ELSE /\ frame' = [frame EXCEPT !.calls = Tail(@)]
                 /\ UNCHANGED <<pc, scan>>
    /\ UNCHANGED params
    /\ MainFrame

\* combo_align, lines 110-112
RunDataChannelReturns ==
    /\ pc = "run_data_channel"
    /\ scan' = [scan EXCEPT !.completed[Head(frame.calls)] = @ + 1]
    /\ frame' = [frame EXCEPT !.cache = Record(@, Head(frame.calls)), !.calls = Tail(@)]
    /\ params' = [params EXCEPT !.saved = Record(frame.cache, Head(frame.calls))]
    /\ pc' = "line91"
    /\ MainFrame

\* main is cut short: what it held in memory is lost
MainKilled ==
    /\ pc # "exited"
    /\ pc' = "exited"
    /\ frame' = NotRunning
    /\ UNCHANGED <<scan, params>>
    /\ MainFrame

NextMain ==
    \/ MainStart
    \/ PreprocessReturns
    \/ LoadAndSearch
    \/ GetEndTilesReturns
    \/ PhixTest
    \/ AlignRunReturns
    \/ FiducialOnlyTest
    \/ ComboAlign
    \/ RunDataChannelReturns
    \/ MainKilled

SpecMain == InitMain /\ [][NextMain]_vars

(***************************************************************************)
(* Claims                                                                  *)
(***************************************************************************)
FourSets(f) == <<f.exclusive_hits, f.good_mutual_hits, f.bad_mutual_hits,
                 f.non_mutual_hits>>

FindHitsCompleted == result.op = "find_hits" /\ result.status = "ok"

\* C1: after every find_hits run that completes, exclusive_hits,
\* good_mutual_hits, bad_mutual_hits and non_mutual_hits are pairwise disjoint
\* and their union is exactly the union of the cluster-to-nearest-projected
\* and the projected-to-nearest-cluster relations.
C1_Partition ==
    FindHitsCompleted =>
        /\ \A a, b \in 1..4 : a # b => FourSets(fia)[a] \cap FourSets(fia)[b] = {}
        /\ UNION {FourSets(fia)[a] : a \in 1..4}
             = result.nn.cluster_to_aligned \cup result.nn.aligned_to_cluster

\* a completed run that reports a hit in all four categories but the good
\* mutual one, which no run populates together with a bad mutual hit here
C1_Witness ==
    /\ FindHitsCompleted
    /\ fia.non_mutual_hits # {}
    /\ fia.exclusive_hits # {}
    /\ fia.bad_mutual_hits # {}

AllHits(f) == UNION {FourSets(f)[a] : a \in 1..4}

\* the image extent: rows 0 .. height - 1, columns 0 .. width - 1
InsideImage(pt, shape) ==
    /\ pt[1] \in 0..(shape[1] - 1)
    /\ pt[2] \in 0..(shape[2] - 1)

\* C10 as stated: every hit of a completed find_hits refers to a cluster
\* centroid and to a projected read coordinate that both lie inside the image.
C10_BothInsideImage ==
    FindHitsCompleted =>
        \A h \in AllHits(fia) :
            /\ InsideImage(fia.clusters[h[1]], fia.image_data.shape)
            /\ InsideImage(fia.aligned_rcs_in_frame[h[2]].pt, fia.image_data.shape)

\* C10 amended: every hit of a completed find_hits refers to a projected read
\* coordinate of a considered tile that lies inside the image, and to a
\* centroid of the cluster list as loaded, inside the image or not.
C10_ReadInsideImage ==
    FindHitsCompleted =>
        \A h \in AllHits(fia) :
            /\ h[1] \in 1..Len(fia.clusters)
            /\ h[2] \in 1..Len(fia.aligned_rcs_in_frame)
            /\ LET a == fia.aligned_rcs_in_frame[h[2]]
               IN /\ InsideImage(a.pt, fia.image_data.shape)
                  /\ \E k \in 1..Len(fia.hitting_tiles) : a.key = fia.hitting_tiles[k]
                  /\ a.pt = fia.aligned[a.key][a.idx]

\* a completed run with a hit on a centroid outside the image, while a read
\* projected outside the image was left out
C10_Witness ==
    /\ FindHitsCompleted
    /\ \E h \in AllHits(fia) : ~InsideImage(fia.clusters[h[1]], fia.image_data.shape)
    /\ \E k \in 1..Len(fia.hitting_tiles) :
          \E i \in 1..Len(fia.aligned[fia.hitting_tiles[k]]) :
             ~InsideImage(fia.aligned[fia.hitting_tiles[k]][i], fia.image_data.shape)

Range(s) == {s[i] : i \in 1..Len(s)}

RoughAlignCalled == result.op = "rough_align" /\ fia.image_data # NoImage

\* the candidate tiles of the call: the tiles it correlates with the image
\* (possible_tiles as lines 141-142 leave it)
Candidates == Range(result.call.possible_tile_keys) \cap DOMAIN fia.fastq_tiles

OverThreshold(k) ==
    10 * result.call.corr[k] > result.call.snr10 * fia.control_corr

\* C2: after a call of find_hitting_tiles (rough_align), a tile is in
\* hitting_tiles if and only if it is a candidate tile of this call whose peak
\* correlation is greater than snr times control_corr; a tile that an earlier
\* call left in hitting_tiles stays only if it qualifies again.
C2_HittingIffOverThreshold ==
    (RoughAlignCalled /\ result.status = "ok") =>
        \A k \in AllKeys \cup PossibleKeys :
            k \in Range(fia.hitting_tiles) <=> (k \in Candidates /\ OverThreshold(k))

\* the tile an earlier call had left hitting (its projected reads are still
\* held) is dropped while another tile hits
C2_Witness ==
    /\ RoughAlignCalled /\ result.status = "ok"
    /\ fia.aligned[<<2, 1>>] # NoRcs
    /\ fia.hitting_tiles = <<<<2, 2>>>>

\* C9: a call of rough_align on an image for which no candidate tile's
\* correlation is over the threshold (the candidate list may be empty, and
\* there may be no tile left to serve as control) returns normally with
\* hitting_tiles empty.
C9_NoHitReturnsEmpty ==
    (RoughAlignCalled /\ \A k \in Candidates : ~OverThreshold(k)) =>
        /\ result.status = "ok"
        /\ fia.hitting_tiles = <<>>

\* no tile is left as control, every candidate correlates at zero
C9_Witness ==
    /\ RoughAlignCalled /\ result.status = "ok"
    /\ Candidates = DOMAIN fia.fastq_tiles
    /\ \A k \in Candidates : result.call.corr[k] = 0
    /\ fia.hitting_tiles = <<>>

\* C4: precision_align_only on an engine whose hitting_tiles is empty raises
\* 'Alignment not found' before any classification or least-squares step, and
\* leaves the engine (hit sets, tile placements) as it was.
C4_EmptyHittingRaises ==
    [][(pc = "aligned" /\ fia.hitting_tiles = <<>>) =>
          /\ pc' = "raised"
          /\ result'.op = "precision_align_only"
          /\ result'.site = "alignment_not_found"
          /\ fia' = fia
          /\ frame' = frame]_vars

C4_Witness ==
    /\ pc = "raised"
    /\ result.site = "alignment_not_found"
    /\ fia.hitting_tiles = <<>>

PrecisionEnded ==
    /\ result.op = "precision_align_only"
    /\ pc \in {"returned", "raised"}
    /\ fia.hitting_tiles # <<>>

\* C5: precision_align_only on a non-empty hitting_tiles returns normally if
\* and only if the trimmed pool of at least one tile reached min_hits;
\* otherwise it raises the 'Could not precision align' error (a ValueError).
C5_ReturnsIffPoolReached ==
    PrecisionEnded =>
        LET reached == \E k \in 1..Len(frame.pools) : frame.pools[k] >= frame.min_hits
        IN /\ (pc = "returned") <=> reached
           /\ pc = "raised" => result.status = ExceptionKind("could_not_precision_align")

InvariantViolationSites == {"partition", "fft_padding"}

\* C7: the 'could not precision align' failure is raised with an error kind
\* that no invariant violation (the partition check, the FFT padding guard)
\* is raised with, so that catching it never catches one of those.
C7_RecoverableKindDistinct ==
    result.site = "could_not_precision_align" =>
        \A s \in InvariantViolationSites : ExceptionKind(s) # result.status

PhaseOrder ==
    {<<"Unaligned", "RoughAligned">>, <<"RoughAligned", "PrecisionAligned">>,
     <<"RoughAligned", "PrecisionFailed">>}

HasOutput(stats, rcs, img) == stats[<<"alignment", img>>].exists \/ rcs[<<"alignment", img>>]

\* C3: for one image in perform_alignment the phases follow one another only as
\* Unaligned -> RoughAligned -> (PrecisionAligned | PrecisionFailed); precision
\* alignment is attempted only on an engine that rough alignment left with a
\* hitting tile; the alignment record and the read-coordinate file are written
\* only in the step that follows a precision_align_only that returned, and an
\* image without rough hit or with a failed precision alignment has no output.
C3_PhaseOrder ==
    [][\A img \in Images :
         /\ images'[img].phase # images[img].phase =>
               <<images[img].phase, images'[img].phase>> \in PhaseOrder
         /\ (cur' = img /\ pc' \in {"lsq", "final", "returned", "raised"}) =>
               /\ fia'.hitting_tiles # <<>>
               /\ images'[img].phase = "RoughAligned"
         /\ (images'[img].phase # images[img].phase
               /\ images'[img].phase \in {"PrecisionAligned", "PrecisionFailed"}) =>
               /\ cur = img
               /\ result.op = "precision_align_only"
               /\ (images'[img].phase = "PrecisionAligned") <=> (pc = "returned")
         /\ (stats_files'[<<"alignment", img>>] # stats_files[<<"alignment", img>>]
               \/ rcs_files'[<<"alignment", img>>] # rcs_files[<<"alignment", img>>]) =>
               /\ cur = img /\ pc = "returned" /\ result.status = "ok"
               /\ images'[img].phase = "PrecisionAligned"
         /\ HasOutput(stats_files', rcs_files', img) =>
               images'[img].phase = "PrecisionAligned"]_vars

\* one image was aligned and its two files written, another failed its
\* precision alignment and has no output
C3_Witness ==
    /\ \E img \in Images :
          /\ images[img].phase = "PrecisionAligned"
          /\ stats_files[<<"alignment", img>>].exists
          /\ rcs_files[<<"alignment", img>>]
    /\ \E img \in Images :
          /\ images[img].phase = "PrecisionFailed"
          /\ images[img].status = "returned"
          /\ ~HasOutput(stats_files, rcs_files, img)

ContainedFailures ==
    {"could_not_precision_align", "fft_padding", "partition", "alignment_not_found"}

\* C6: a failure raised while one image is processed (insufficient hits, the
\* FFT padding ValueError, the hit-partition assertion, 'Alignment not found')
\* does not propagate out of the worker call, and the run is not aborted.
C6_FailureContained ==
    \A img \in DOMAIN images :
        images[img].error \in ContainedFailures =>
            /\ images[img].status = "returned"
            /\ run # "aborted"

\* C8: every image is processed on a deep copy of the unmodified template
\* engine: the engine a row of the column scan is processed on carries nothing
\* of the rows processed before it.
C8_ProcessedOnTemplateCopy ==
    [][(scan.state = "scanning" /\ fia' # fia) => fia = prefia]_vars

\* the side-1 counterpart of a tile key: its character at index 9 is '1'
FloorKey(k) == <<1, k[2]>>

\* the candidates the side-selection flag asks for
SideCandidates ==
    IF result.call.side1
    THEN {FloorKey(k) : k \in Range(result.call.possible_tile_keys)}
            \cap DOMAIN fia.fastq_tiles
    ELSE Range(result.call.possible_tile_keys) \cap DOMAIN fia.fastq_tiles

\* C11: after find_hitting_tiles, the tiles tried as candidates are, with side1
\* true, the side-1 counterparts of possible_tile_keys that are in the catalog,
\* and with side1 false the catalog tiles named by possible_tile_keys: only a
\* candidate is reported as hitting, and a candidate over the threshold is.
C11_SideSelectsCandidates ==
    (RoughAlignCalled /\ result.status = "ok") =>
        /\ Range(fia.hitting_tiles) \subseteq SideCandidates
        /\ \A k \in SideCandidates : OverThreshold(k) => k \in Range(fia.hitting_tiles)

\* the tiles left outside the candidates of the call
Outside == DOMAIN fia.fastq_tiles \ Candidates

\* C17: after find_hitting_tiles the control tiles are catalog tiles outside
\* the candidate set, two of them (all of them if fewer are left) and none
\* with fewer reads than a tile left out, and control_corr is the greatest of
\* their peak correlations.
C17_ControlCorr ==
    (RoughAlignCalled /\ result.status = "ok") =>
        LET control_tiles == result.call.control_tiles
        IN /\ control_tiles \subseteq Outside
           /\ control_tiles \cap Candidates = {}
           /\ Cardinality(control_tiles)
                 = (IF Cardinality(Outside) < 2 THEN Cardinality(Outside) ELSE 2)
           /\ \A c \in control_tiles : \A d \in Outside \ control_tiles :
                 fia.fastq_tiles[c] >= fia.fastq_tiles[d]
           /\ control_tiles # {} =>
                 /\ \E c \in control_tiles : result.call.corr[c] = fia.control_corr
                 /\ \A c \in control_tiles : result.call.corr[c] <= fia.control_corr

\* three tiles are left outside the candidates; the two controls correlate
\* differently, the greater of the two is control_corr, and a tile with
\* fewer reads was left out
C17_Witness ==
    /\ RoughAlignCalled /\ result.status = "ok"
    /\ Cardinality(Outside) = 3
    /\ \E c, d \in result.call.control_tiles :
          /\ result.call.corr[c] < result.call.corr[d]
          /\ fia.control_corr = result.call.corr[d]
    /\ \E c \in result.call.control_tiles : \E d \in Outside \ result.call.control_tiles :
          fia.fastq_tiles[c] > fia.fastq_tiles[d]

\* d is a power of two: every divisor of d but 1 is even
IsPowerOf2(d) == d >= 1 /\ \A q \in 2..d : d % q = 0 => q % 2 = 0

\* the smallest power of two >= m
SmallestPowerOf2(m) ==
    CHOOSE d \in 1..(2 * m) :
        /\ IsPowerOf2(d) /\ d >= m
        /\ \A e \in 1..(d - 1) : IsPowerOf2(e) => e < m

\* the side the claim gives the square: h + ph and w + pw, the larger
SquareSide(shape, padding) ==
    SmallestPowerOf2(IF shape[1] + padding[1] >= shape[2] + padding[2]
                     THEN shape[1] + padding[1] ELSE shape[2] + padding[2])

\* C12: set_fft(padding) on an image of shape (h, w) returns with the stored
\* transform of shape (d, d), d the smallest power of two >= max(h + ph,
\* w + pw); a call whose padded array has another shape raises ValueError and
\* leaves the stored transform as it was.
C12_SquarePowerOfTwo ==
    [][(pc' # pc /\ result'.op \in {"set_fft", "set_fft, padded shape forced"}) =>
          LET d == SquareSide(fia.image_data.shape, result'.call.padding)
          IN IF result'.op = "set_fft"
             THEN /\ result'.status = "ok"
                  /\ fia'.image_data.fft = <<d, d>>
             ELSE /\ result'.status = "ValueError"
                  /\ result'.site = "fft_padding"
                  /\ fia'.image_data.fft = fia.image_data.fft]_vars

\* a transform larger than the image was stored for a padded side that is
\* not a power of two, and a later call with a forced shape raised and left
\* it in place
C12_Witness ==
    /\ result.op = "set_fft, padded shape forced"
    /\ result.site = "fft_padding"
    /\ fia.image_data.fft = <<8, 8>>
    /\ fia.image_data.shape = <<3, 2>>

\* C14: however many tiles or alignment-record entries an engine handles,
\* set_fastq_tile_mappings has run on it at most once.
C14_MappingsComputedOnce == fia.mappings_runs <= 1

\* the reads the output is to list: those of a hitting tile that holds a
\* rotation, projected inside the image
Listed(f, k, i) ==
    /\ k \in Range(f.hitting_tiles)
    /\ f.transform[k] # NoTransform
    /\ i \in 1..f.fastq_tiles[k]
    /\ InsideImage(f.aligned[k][i], f.image_data.shape)

TilePosition(f, k) == CHOOSE p \in 1..Len(f.hitting_tiles) : f.hitting_tiles[p] = k

\* C13: read_names_rcs ends without error and yields exactly one line (read,
\* row, column) for each read of each hitting tile that has a rotation and
\* whose aligned point is inside the image, in hitting-tile order and read
\* order; a hitting tile without rotation and a read outside the image
\* contribute no line.
C13_ReadLines ==
    result.op = "read_names_rcs" =>
        LET lines == result.out
        IN /\ result.status = "ok"
           /\ \A n \in 1..Len(lines) :
                 /\ Listed(fia, lines[n].name[1], lines[n].name[2])
                 /\ <<lines[n].row, lines[n].column>>
                       = fia.aligned[lines[n].name[1]][lines[n].name[2]]
           /\ \A k \in DOMAIN fia.fastq_tiles : \A i \in 1..fia.fastq_tiles[k] :
                 Listed(fia, k, i) =>
                    Cardinality({n \in 1..Len(lines) : lines[n].name = <<k, i>>}) = 1
           /\ \A m, n \in 1..Len(lines) : m < n =>
                 \/ TilePosition(fia, lines[m].name[1]) < TilePosition(fia, lines[n].name[1])
                 \/ /\ lines[m].name[1] = lines[n].name[1]
                    /\ lines[m].name[2] < lines[n].name[2]

\* of two hitting tiles the first has a rotation, a read inside the image and
\* a read outside, the second has no rotation and a read inside the image:
\* the one line is that of the first tile's read inside
C13_Witness ==
    /\ result.op = "read_names_rcs"
    /\ Len(fia.hitting_tiles) = 2
    /\ fia.transform[fia.hitting_tiles[1]] # NoTransform
    /\ \E i \in 1..Len(fia.aligned[fia.hitting_tiles[1]]) :
          ~InsideImage(fia.aligned[fia.hitting_tiles[1]][i], fia.image_data.shape)
    /\ fia.transform[fia.hitting_tiles[2]] = NoTransform
    /\ \E i \in 1..Len(fia.aligned[fia.hitting_tiles[2]]) :
          InsideImage(fia.aligned[fia.hitting_tiles[2]][i], fia.image_data.shape)
    /\ Len(result.out) = 1

\* the reads of the hitting tiles projected inside the image
ReadsInImage(f) ==
    UNION { { <<k, i>> : i \in {j \in 1..Len(f.aligned[k]) :
                                   InsideImage(f.aligned[k][j], f.image_data.shape)} } :
            k \in Range(f.hitting_tiles) }

\* C15: the alignment record of an engine precision_align_only returned on
\* names the tiles of hitting_tiles, one entry each, in list order, and its
\* four counts are those of the classification of all hitting tiles together:
\* the relations of the final find_hits pair every cluster and every read of
\* any hitting tile inside the image, the non-mutual count is the number of
\* pairs in one relation only and the three mutual counts add up to the
\* number of pairs in both.
C15_RecordOfAllTiles ==
    result.op = "alignment_stats" =>
        LET c2a == result.nn.cluster_to_aligned
            a2c == result.nn.aligned_to_cluster
            stats == result.out
        IN /\ stats.tiles = fia.hitting_tiles
           /\ {h[1] : h \in c2a} = 1..Len(fia.clusters)
           /\ {h[2] : h \in a2c} = 1..Cardinality(ReadsInImage(fia))
           /\ stats.hits[4] = Cardinality((c2a \ a2c) \cup (a2c \ c2a))
           /\ stats.hits[1] + stats.hits[2] + stats.hits[3] = Cardinality(c2a \cap a2c)
           /\ stats.hits = <<Cardinality(fia.exclusive_hits),
                             Cardinality(fia.good_mutual_hits),
                             Cardinality(fia.bad_mutual_hits),
                             Cardinality(fia.non_mutual_hits)>>

\* two hitting tiles, each with a read inside the image, so that the counts
\* cover more reads than the tile classified last has
C15_Witness ==
    /\ result.op = "alignment_stats"
    /\ Len(fia.hitting_tiles) = 2
    /\ \A k \in Range(fia.hitting_tiles) : \E r \in ReadsInImage(fia) : r[1] = k
    /\ result.out.hits[1] + result.out.hits[2] + result.out.hits[3]
          + result.out.hits[4] >= 2

\* C16: all_reads_fic_from_aligned_fic(other, all_reads) returns without
\* error on an engine whose catalog holds the keys of other's hitting tiles
\* and no other, whose hitting_tiles is other's list of keys in the same
\* order and whose hitting tiles hold the transform other's tiles hold, a
\* tile without transform in other staying without one (and unprojected);
\* no correlation and no classification has run on it.
C16_RebuiltFromAligned ==
    [][(pc = "aligned" /\ result'.op = "all_reads_fic_from_aligned_fic") =>
          /\ result'.status = "ok"
          /\ DOMAIN fia'.fastq_tiles = Range(fia.hitting_tiles)
          /\ fia'.hitting_tiles = fia.hitting_tiles
          /\ \A k \in Range(fia.hitting_tiles) :
                /\ fia'.transform[k] = fia.transform[k]
                /\ fia.transform[k] = NoTransform => fia'.aligned[k] = NoRcs
          /\ fia'.control_corr = 0
          /\ AllHits(fia') = {} /\ fia'.mutual_hits = {}]_vars

\* the engine was rebuilt from one with two hitting tiles of which the first
\* holds a transform and the second none
C16_Witness ==
    /\ result.op = "all_reads_fic_from_aligned_fic"
    /\ result.status = "ok"
    /\ Len(fia.hitting_tiles) = 2
    /\ fia.transform[fia.hitting_tiles[1]] # NoTransform
    /\ fia.transform[fia.hitting_tiles[2]] = NoTransform
    /\ fia.aligned[fia.hitting_tiles[2]] = NoRcs

\* the two directional nearest-neighbour relations of the call
ClusterToAligned == result.nn.cluster_to_aligned
AlignedToCluster == result.nn.aligned_to_cluster

\* C18: after find_hits, mutual_hits is the set of the pairs in both
\* directional nearest-neighbour relations, non_mutual_hits the set of the
\* pairs in one of them only, and bad_mutual_hits is mutual_hits minus
\* exclusive_hits minus good_mutual_hits.
C18_MutualNonMutualBad ==
    FindHitsCompleted =>
        /\ fia.mutual_hits = {h \in ClusterToAligned : h \in AlignedToCluster}
        /\ fia.non_mutual_hits =
              {h \in ClusterToAligned \cup AlignedToCluster :
                  ~(h \in ClusterToAligned /\ h \in AlignedToCluster)}
        /\ fia.bad_mutual_hits =
              {h \in fia.mutual_hits :
                  h \notin fia.exclusive_hits /\ h \notin fia.good_mutual_hits}

\* each relation has a pair the other has not, and a pair they share is a
\* bad mutual hit
C18_Witness ==
    /\ FindHitsCompleted
    /\ ClusterToAligned \ AlignedToCluster # {}
    /\ AlignedToCluster \ ClusterToAligned # {}
    /\ fia.bad_mutual_hits # {}

\* the squared distance between the cluster and the projected point of a pair
PairD2(h) == D2(fia.clusters[h[1]], fia.aligned_rcs_in_frame[h[2]].pt)

\* distance <= the good-hit threshold, and distance > twice the threshold (the
\* threshold is kept as twenty times its value; no comparison holds on a NaN)
WithinThreshold(h) ==
    /\ ~result.nn.good_hit_threshold.nan
    /\ 400 * PairD2(h) <= result.nn.good_hit_threshold.v20 * result.nn.good_hit_threshold.v20

BeyondTwiceThreshold(h) ==
    /\ ~result.nn.good_hit_threshold.nan
    /\ 400 * PairD2(h) > 4 * result.nn.good_hit_threshold.v20 * result.nn.good_hit_threshold.v20

\* neither endpoint of the pair is an endpoint of a non-mutual pair
FreeOfNonMutual(h) ==
    \A n \in fia.non_mutual_hits : n[1] # h[1] /\ n[2] # h[2]

\* C19: after find_hits a mutual pair (i, j) is in exclusive_hits if and only
\* if cluster i is the cluster of no non-mutual pair, point j is the point of
\* no non-mutual pair, and the distance of the pair is <= the good-hit
\* threshold; exclusive_hits holds mutual pairs only.
C19_Exclusive ==
    FindHitsCompleted =>
        /\ fia.exclusive_hits \subseteq fia.mutual_hits
        /\ \A h \in fia.mutual_hits :
              h \in fia.exclusive_hits <=> (FreeOfNonMutual(h) /\ WithinThreshold(h))

\* the threshold is a percentile; one pair is exclusive, at the threshold or
\* under it, and another pair free of non-mutual pairs is farther apart than
\* the threshold and is not exclusive
C19_Witness ==
    /\ FindHitsCompleted
    /\ ~FixedThreshold(fia)
    /\ fia.exclusive_hits # {}
    /\ \E h \in fia.mutual_hits \ fia.exclusive_hits :
          FreeOfNonMutual(h) /\ ~WithinThreshold(h)

\* C20: after find_hits a mutual pair (i, j) is in good_mutual_hits if and
\* only if it is not in exclusive_hits, its distance is <= the good-hit
\* threshold, and every non-mutual pair with cluster i or point j is farther
\* apart than twice the threshold; good_mutual_hits holds mutual pairs only.
C20_GoodMutual ==
    FindHitsCompleted =>
        /\ fia.good_mutual_hits \subseteq fia.mutual_hits
        /\ \A h \in fia.mutual_hits :
              h \in fia.good_mutual_hits <=>
                 /\ h \notin fia.exclusive_hits
                 /\ WithinThreshold(h)
                 /\ \A n \in fia.non_mutual_hits :
                       (n[1] = h[1] \/ n[2] = h[2]) => BeyondTwiceThreshold(n)

\* one mutual pair is good, its competing pairs being farther apart than twice
\* the threshold, and the same engine state holds a non-mutual pair
C20_Witness ==
    /\ FindHitsCompleted
    /\ \E h \in fia.good_mutual_hits :
          \E n \in fia.non_mutual_hits : n[1] = h[1] \/ n[2] = h[2]

\* the mutual pairs neither endpoint of which is in a non-mutual pair: the
\* exclusive set before the cap of the distance
UncappedExclusive == {h \in fia.mutual_hits : FreeOfNonMutual(h)}

\* twenty times the 95th percentile of the distances of a non-empty set of
\* pairs: with the distances in ascending order d[1..n], the value at rank
\* 1 + 0.95 * (n - 1), interpolated linearly between the two ranks around it
Percentile95x20(hits) ==
    LET d == SortedDists(fia.clusters, fia.aligned_rcs_in_frame, hits)
        n == Len(d)
        lo == 1 + (19 * (n - 1)) \div 20
        part == (19 * (n - 1)) % 20
    IN IF part = 0 THEN 20 * d[lo]
       ELSE 20 * d[lo] + part * (d[lo + 1] - d[lo])

\* C21: the good-hit threshold find_hits uses is the fixed value 5 exactly
\* when int(16.0 / um_per_pixel) is 60, and otherwise the 95th percentile of
\* the distances of the exclusive set as it is before the distance cap (not a
\* number when that set is empty); the second-neighbour threshold is twice
\* the good-hit threshold.
C21_GoodHitThreshold ==
    FindHitsCompleted =>
        /\ (16000 \div fia.image_data.um_per_pixel = 60) =>
              result.nn.good_hit_threshold = [nan |-> FALSE, v20 |-> 20 * 5]
        /\ (16000 \div fia.image_data.um_per_pixel # 60) =>
              result.nn.good_hit_threshold =
                 IF UncappedExclusive = {} THEN [nan |-> TRUE, v20 |-> 0]
                 ELSE [nan |-> FALSE, v20 |-> Percentile95x20(UncappedExclusive)]
        /\ result.nn.second_neighbor_thresh.nan = result.nn.good_hit_threshold.nan
        /\ result.nn.second_neighbor_thresh.v20 = 2 * result.nn.good_hit_threshold.v20

\* the threshold is a percentile of two distances that differ: the cap then
\* takes the farther pair out of the exclusive set the percentile was taken of
C21_Witness ==
    /\ FindHitsCompleted
    /\ 16000 \div fia.image_data.um_per_pixel # 60
    /\ Cardinality(UncappedExclusive) = 2
    /\ Cardinality(fia.exclusive_hits) = 1
    /\ result.nn.good_hit_threshold.v20 > 0
    /\ result.nn.second_neighbor_thresh.v20 = 2 * result.nn.good_hit_threshold.v20

\* a pass of the loop of least_squares_mapping that ended without an exception
LeastSquaresPass ==
    /\ pc = "lsq" /\ pc' = "lsq"
    /\ frame.i <= Len(fia.hitting_tiles)
    /\ frame'.i = frame.i + 1

\* what a tile holds: where its reads are put, its transform, its correlation
\* and signal-to-noise ratio
TileState(f, k) == <<f.aligned[k], f.transform[k], f.snr[k]>>

\* the hits of the classification the pass made that are exclusive or
\* good-mutual and not farther apart than the 90th percentile of their
\* distances
TrimmedPool(f) ==
    LET raw == f.exclusive_hits \cup f.good_mutual_hits
        d(h) == Norm(f.clusters[h[1]], f.aligned_rcs_in_frame[h[2]].pt)
        sorted == SortedDists(f.clusters, f.aligned_rcs_in_frame, raw)
        n == Len(sorted)
        lo == 1 + (18 * (n - 1)) \div 20
        part == (18 * (n - 1)) % 20
        p90x20 == IF part = 0 THEN 20 * sorted[lo]
                  ELSE 20 * sorted[lo] + part * (sorted[lo + 1] - sorted[lo])
    IN IF raw = {} THEN {} ELSE {h \in raw : 20 * d(h) <= p90x20}

\* C22: a pass of least_squares_mapping classifies the reads of its tile
\* alone, leaves hitting_tiles and every other tile as they are, leaves its
\* own tile as it is (placement, transform, correlation and SNR) when the
\* trimmed pool of the tile has fewer than min_hits hits, and otherwise gives
\* the tile the least-squares transform.
C22_TileSkippedOrSolved ==
    [][LeastSquaresPass =>
          LET tile == fia.hitting_tiles[frame.i]
              pool == TrimmedPool(fia')
          IN /\ fia'.hitting_tiles = fia.hitting_tiles
             /\ \A j \in 1..Len(fia'.aligned_rcs_in_frame) :
                   fia'.aligned_rcs_in_frame[j].key = tile
             /\ \A k \in DOMAIN fia.fastq_tiles :
                   k # tile => TileState(fia', k) = TileState(fia, k)
             /\ Cardinality(pool) < frame.min_hits =>
                   /\ TileState(fia', tile) = TileState(fia, tile)
                   /\ frame'.found_good_mapping = frame.found_good_mapping
             /\ Cardinality(pool) >= frame.min_hits =>
                   /\ fia'.transform[tile] = SolvedTransform(tile)
                   /\ fia'.snr[tile] = SolvedSnr(tile)
                   /\ frame'.found_good_mapping]_vars

\* the loop is over: its first tile reached min_hits and was solved, its
\* second tile was passed over and kept the transform of the alignment record
C22_Witness ==
    /\ pc = "lsq"
    /\ Len(fia.hitting_tiles) = 2
    /\ frame.i = 3
    /\ frame.min_hits = 2
    /\ frame.pools[1] = 2 /\ frame.pools[2] < 2
    /\ fia.transform[fia.hitting_tiles[1]] = SolvedTransform(fia.hitting_tiles[1])
    /\ fia.snr[fia.hitting_tiles[1]] = SolvedSnr(fia.hitting_tiles[1])
    /\ fia.transform[fia.hitting_tiles[2]] = RecordedTransform(fia.hitting_tiles[2])
    /\ fia.snr[fia.hitting_tiles[2]] = NoSnr

\* the position in the given order of the first column in which the call of
\* some file aligned, 0 if there is none
FirstAlignedPosition ==
    LET hit == {i \in 1..Len(scan.columns) :
                  \E f \in H5Filenames : params.found[<<f, scan.columns[i]>>] = "aligned"}
    IN IF hit = {} THEN 0 ELSE CHOOSE i \in hit : \A j \in hit : i <= j

\* C23: find_bounds returns the reports of the first column, in the given
\* order, in which the call of at least one file found hitting tiles: one
\* entry for each file whose call aligned in that column and none for the
\* others, and the empty map if and only if no column aligned for any file,
\* whatever the order in which the calls of a column run.
C23_FirstAlignedColumn ==
    scan.state = "returned" =>
        /\ FirstAlignedPosition = 0 <=> ~NonEmpty(scan.returned)
        /\ FirstAlignedPosition # 0 =>
              \A f \in H5Filenames :
                 scan.returned[f] =
                    IF params.found[<<f, scan.columns[FirstAlignedPosition]>>] = "aligned"
                    THEN <<EndTileKeys, scan.columns[FirstAlignedPosition]>>
                    ELSE NoEntry

\* the columns were tried in reverse order; nothing aligned in the first one
\* tried, both files aligned in the second, and a column tried later would
\* have aligned too
C23_Witness ==
    /\ scan.state = "returned"
    /\ scan.columns[1] = NumColumns
    /\ FirstAlignedPosition = 2
    /\ \A f \in H5Filenames : scan.returned[f] # NoEntry
    /\ \E f \in H5Filenames : params.found[<<f, scan.columns[3]>>] = "aligned"

\* lambda * c = v, for lambda = sign * sqrt(n / d) and c = p / sqrt(r2)
TimesRatioIs(lbda, p, r2, v) ==
    /\ ~lbda.residue /\ lbda.d # 0
    /\ lbda.sign * Sgn(p) = Sgn(v)
    /\ lbda.n * p * p = v * v * lbda.d * r2

\* C24: for every least-squares solution (alpha, beta) other than (0, 0) the
\* recovered rotation theta and scale lambda satisfy lambda > 0,
\* lambda * cos(theta) = alpha and lambda * sin(theta) = beta, cos(theta) and
\* sin(theta) being alpha / r and beta / r with r the length of (alpha, beta).
C24_ScaleRecovered ==
    (pc = "scaled" /\ <<frame.alpha, frame.beta>> # <<0, 0>>) =>
        LET r2 == frame.alpha * frame.alpha + frame.beta * frame.beta
        IN /\ frame.lbda.sign = 1 /\ frame.lbda.n > 0
           /\ TimesRatioIs(frame.lbda, frame.alpha, r2, frame.alpha)
           /\ TimesRatioIs(frame.lbda, frame.beta, r2, frame.beta)

\* C25: the chunksize calculate_process_count returns is at least 32, and is
\* ceil(image_count / num_processes) + 1 when that is larger.
C25_ChunksizeAtLeast32 ==
    result.op = "calculate_process_count" =>
        LET per_process == CeilDiv(frame.image_count, result.out.num_processes) + 1
        IN /\ result.out.chunksize >= 32
           /\ per_process > 32 => result.out.chunksize = per_process

\* an image with a stats file of positive score
Stored(c) == stats_files[c].exists /\ Score(stats_files[c]) > 0

\* C26: once an image has a stats file with a positive score, no step of
\* align.run replaces the stored result: the stats file keeps its content,
\* and apart from the call of write_output that wrote it and is still to
\* write the all_read_rcs file, no call on the image writes a file: the
\* all_read_rcs file stays as it is and no call comes to write.
C26_StoredResultKept ==
    [][\A c \in Cells :
          Stored(c) =>
              /\ stats_files'[c] = stats_files[c]
              /\ cur # c => rcs_files'[c] = rcs_files[c] /\ cur' # c]_vars

\* a later run was handed an image whose stats file has a positive score, and
\* the call of perform_alignment on it has returned
C26_Witness ==
    /\ run = "running" /\ params.runs = 2
    /\ \E c \in Cells : Stored(c) /\ images[c] = "done"

\* C27: after a completed run every image has either both its stats file and
\* its all_read_rcs file or neither, whatever interruption came before.
C27_BothFilesOrNeither ==
    run = "done" =>
        \A c \in Cells : stats_files[c].exists <=> rcs_files[c] # NoRcsFile

\* the yielded images, in a set
Yielded == {result.out[i] : i \in 1..Len(result.out)}

\* C28: iterate_all_images yields, exactly once each, the existing images
\* that are not already checkpointed and whose column is between min_column
\* and max_column, both included.
C28_YieldsInclusiveRange ==
    result.op = "iterate_all_images" =>
        /\ Yielded = {c \in params.existing :
                        /\ params.min_column <= c[2] /\ c[2] <= params.max_column
                        /\ ~already_aligned(stats_files[c], rcs_files[c])}
        /\ Cardinality(Yielded) = Len(result.out)

\* the stage main is executing
Executing ==
    IF pc = "preprocess" THEN {Preprocessing}
    ELSE IF pc = "get_end_tiles" THEN {EndTileSearch}
    ELSE IF pc = "align_run" THEN {PhixAlignment}
    ELSE IF pc = "run_data_channel" THEN {Head(frame.calls)}
    ELSE {}

\* the stages main goes through on this directory, in the order of lines 26-103
StageOrder ==
    <<Preprocessing, EndTileSearch, PhixAlignment>>
        \o ComboCalls(ProteinChannels(params.channels), params.on_target, params.perfect)

\* C29: a stage is recorded as done in the saved cache only once an execution
\* of it has returned; a stage the saved cache records as done is never
\* entered again, in this invocation or a later one; and a stage is entered
\* only when every stage before it in the order preprocessing, end-tile
\* search, phiX alignment, protein channel combinations is done.
C29_StagesOnceInOrder ==
    [][/\ \A st \in Stages :
            /\ Done(params'.saved, st) => scan'.completed[st] > 0
            /\ Done(params.saved, st) => scan'.begun[st] = scan.begun[st]
       /\ \A i \in 1..Len(StageOrder) :
            StageOrder[i] \in Executing' =>
                \A j \in 1..(i - 1) : scan'.completed[StageOrder[j]] > 0]_vars

\* a later invocation passes over the stages recorded before it and executes
\* the next one
C29_Witness ==
    /\ params.invocations = 2
    /\ pc = "run_data_channel"
    /\ scan.begun[Preprocessing] = 1 /\ scan.begun[PhixAlignment] = 2
    /\ Len(params.saved.protein_channels_aligned) = 1
    /\ Head(frame.calls) = <<"a", "perfect_target">>

\* distance > the good-hit threshold (false on a NaN): the pairs line 266
\* passes over
BeyondThreshold(h) ==
    /\ ~result.nn.good_hit_threshold.nan
    /\ 400 * PairD2(h) > result.nn.good_hit_threshold.v20 * result.nn.good_hit_threshold.v20

\* C30: find_hits never ends on the minimum of an empty list of competing
\* pairs: every mutual pair it evaluates the minimum for (one that is not
\* exclusive and not farther apart than the good-hit threshold) shares its
\* cluster or its point with a non-mutual pair.
C30_CompetitorExists ==
    /\ result.site # "min"
    /\ FindHitsCompleted =>
          \A h \in fia.mutual_hits \ fia.exclusive_hits :
              ~BeyondThreshold(h) => ~FreeOfNonMutual(h)

\* the minimum was evaluated for a mutual pair, and a competing pair within
\* twice the threshold made the pair a bad one
C30_Witness ==
    /\ FindHitsCompleted
    /\ \E h \in fia.bad_mutual_hits :
          /\ ~BeyondThreshold(h)
          /\ \E n \in fia.non_mutual_hits :
                (n[1] = h[1] \/ n[2] = h[2]) /\ ~BeyondTwiceThreshold(n)

====
